---- MODULE Spec2Model ----
(***************************************************************************)
(* Model of the collaborative coding-interview backend                     *)
(* (02-coding-interview/backend/app): the Session Store (SessionManager    *)
(* and the Session domain object), the per-session rate limiter, the       *)
(* Connection Registry (ConnectionManager) and the per-connection message  *)
(* loop of the WebSocket endpoint.                                         *)
(*                                                                         *)
(* Every route of the application is an `async def`, so all handlers run   *)
(* on one event loop: the code between two `await`s is one atomic step,    *)
(* and every `await` is a point where another handler may run.             *)
(***************************************************************************)
EXTENDS Integers, Sequences, FiniteSets, TLC

\* ------------------------------------------------------------------------
\* Universes of the model
\* ------------------------------------------------------------------------
SessionIds == {"s1", "s2"}
ClientIds == {"u1", "u2", "u3"}
Chans == {"c1", "c2", "c3"}
Langs == {"python", "javascript"}
\* the (code, language) payloads of code_update messages
CodeUpdates == {<<"X", "python">>, <<"Y", "javascript">>}
\* the client ids a channel may join with
JoinIds(c) == IF c = "c1" THEN {"u1"} ELSE IF c = "c2" THEN {"u1", "u2"} ELSE {"u2", "u3"}
\* channels are interchangeable: they are opened in the order c1, c2, c3
ChanOrder == <<"c1", "c2", "c3">>

None == "None"
NoParticipant == [absent |-> TRUE]

\* Python dictionaries are functions whose domain is the set of keys
DictSet(d, k, v) == [x \in DOMAIN d \cup {k} |-> IF x = k THEN v ELSE d[x]]
DictDel(d, k) == [x \in DOMAIN d \ {k} |-> d[x]]
EmptyDict == [x \in {} |-> None]

\* max_participants given to create_session (the request layer admits 2..20)
MaxParticipants == 2

\* Session.add_execution_result keeps the last 50 results
HistoryCap == 50

\* ------------------------------------------------------------------------
\* State
\* ------------------------------------------------------------------------
VARIABLES
    sessions,          \* SessionManager._sessions: session id -> Session
    execution_counts,  \* SessionManager._execution_counts: id -> timestamps
    now,               \* the value datetime.now() returns (seconds)
    connections,       \* ConnectionManager._connections: id -> list of channels
    connection_info,   \* ConnectionManager._connection_info: channel -> (sid, client)
    pc,                \* where the handler of each channel stands
    sess,              \* websocket_endpoint's session_id path parameter
    ws_client_id,      \* websocket_endpoint's local client_id
    bc,                \* locals of the broadcast_to_session call a handler is in
    alive,             \* whether the transport of a channel is still open
    sent,              \* per channel, the messages send_json delivered to it
    inbound,           \* number of messages receive_json has returned
    budget,            \* number of messages the clients send in this run
    client,            \* per channel, the state of the client at the other end
    to_server,         \* per channel, the messages on their way to the server
    cleaned,           \* per channel, what terminal cleanup has done for it
    done,              \* the broadcast that completed last
    admitted,          \* per session, the times of all admitted executions
    last               \* the last call or handler step and its outcome

storeVars == <<sessions, execution_counts, now, admitted>>
regVars == <<connections, connection_info>>
clientVars == <<client, to_server>>
wsVars == <<pc, sess, ws_client_id, bc, alive, sent, inbound, budget, cleaned, done>>
vars == <<sessions, execution_counts, now, connections, connection_info,
          pc, sess, ws_client_id, bc, alive, sent, inbound, budget, client,
          to_server, cleaned, done, admitted, last>>

\* ------------------------------------------------------------------------
\* Sequence helpers (list comprehensions of the source)
\* ------------------------------------------------------------------------
RECURSIVE SelectSeqBy(_, _)
\* [p for p in s if Keep[p]] with Keep given as a set of kept elements
SelectSeqBy(s, keep) ==
    IF s = <<>> THEN <<>>
    ELSE IF Head(s) \in keep
         THEN <<Head(s)>> \o SelectSeqBy(Tail(s), keep)
         ELSE SelectSeqBy(Tail(s), keep)

Range(s) == {s[i] : i \in 1..Len(s)}

\* ------------------------------------------------------------------------
\* models/domain.py: Session
\* ------------------------------------------------------------------------
NewParticipant(client_id, connection_id) ==
    [client_id |-> client_id, connection_id |-> connection_id, is_connected |-> TRUE]

participant_count(s) ==
    Cardinality({i \in 1..Len(s.participants) : s.participants[i].is_connected})

is_full_off_by_one(s) == participant_count(s) > s.max_participants

is_full(s) == participant_count(s) >= s.max_participants

\* first record with the client id, or NoParticipant (Python's None)
get_participant(s, client_id) ==
    LET idx == {i \in 1..Len(s.participants) : s.participants[i].client_id = client_id}
    IN IF idx = {} THEN NoParticipant
       ELSE s.participants[CHOOSE i \in idx : \A j \in idx : i <= j]

Session_add_participant_appends(s, p, t) ==
    [s EXCEPT !.participants = Append(s.participants, p), !.updated_at = t]

Session_add_participant_only_newest(s, p, t) ==
    [s EXCEPT !.participants = <<p>>, !.updated_at = t]

Session_add_participant(s, p, t) ==
    [s EXCEPT !.participants =
                  Append(SelectSeqBy(s.participants,
                                     {q \in Range(s.participants) :
                                          q.client_id # p.client_id}), p),
              !.updated_at = t]

Session_remove_participant_deletes(s, client_id, t) ==
    [s EXCEPT !.participants =
                  SelectSeqBy(s.participants,
                              {q \in Range(s.participants) : q.client_id # client_id}),
              !.updated_at = t]

Session_remove_participant(s, client_id, t) ==
    LET idx == {i \in 1..Len(s.participants) : s.participants[i].client_id = client_id}
    IN [s EXCEPT !.participants =
                     IF idx = {} THEN @
                     ELSE [@ EXCEPT ![CHOOSE i \in idx : \A j \in idx : i <= j].is_connected = FALSE],
                 !.updated_at = t]

Session_update_code_code_only(s, code, language, t) ==
    [s EXCEPT !.current_code = code, !.updated_at = t]

Session_update_code(s, code, language, t) ==
    [s EXCEPT !.current_code = code, !.current_language = language, !.updated_at = t]

Session_add_execution_result_keep_first(s, r, t) ==
    LET h == Append(s.execution_history, r)
    IN [s EXCEPT !.execution_history =
                     IF Len(h) > HistoryCap THEN SubSeq(h, 1, HistoryCap) ELSE h,
                 !.updated_at = t]

Session_add_execution_result(s, r, t) ==
    LET h == Append(s.execution_history, r)
    IN [s EXCEPT !.execution_history =
                     IF Len(h) > HistoryCap
                     THEN SubSeq(h, Len(h) - HistoryCap + 1, Len(h))
                     ELSE h,
                 !.updated_at = t]

\* ------------------------------------------------------------------------
\* services/session_manager.py: SessionManager
\* ------------------------------------------------------------------------
\* the `templates` dictionary of _get_default_code
templates ==
    [javascript |-> "tpl_javascript", python |-> "tpl_python",
     java |-> "tpl_java", cpp |-> "tpl_cpp"]

_get_default_code(language) ==
    CASE language = "javascript" -> "tpl_javascript"
      [] language = "python" -> "tpl_python"
      [] language = "java" -> "tpl_java"
      [] language = "cpp" -> "tpl_cpp"
      [] OTHER -> "tpl_generic"

NewSession(initial_language, max_participants, t) ==
    [status |-> "active",
     current_code |-> _get_default_code(initial_language),
     current_language |-> initial_language,
     participants |-> <<>>,
     execution_history |-> <<>>,
     updated_at |-> t,
     max_participants |-> max_participants]

Exists(ss, sid) == sid \in DOMAIN ss

add_participant_touches_when_full(ss, sid, client_id, connection_id, t) ==
    IF ~Exists(ss, sid)
    THEN [result |-> "SessionNotFound", sessions |-> ss]
    ELSE IF get_participant(ss[sid], client_id) = NoParticipant /\ is_full(ss[sid])
    THEN [result |-> "SessionFull", sessions |-> [ss EXCEPT ![sid].updated_at = t]]
    ELSE [result |-> "ok",
          sessions |-> [ss EXCEPT ![sid] =
              Session_add_participant(@, NewParticipant(client_id, connection_id), t)]]

\* SessionManager.add_participant: the outcome and the store after the call
add_participant(ss, sid, client_id, connection_id, t) ==
    IF ~Exists(ss, sid)
    THEN [result |-> "SessionNotFound", sessions |-> ss]
    ELSE IF get_participant(ss[sid], client_id) = NoParticipant /\ is_full(ss[sid])
    THEN [result |-> "SessionFull", sessions |-> ss]
    ELSE [result |-> "ok",
          sessions |-> [ss EXCEPT ![sid] =
              Session_add_participant(@, NewParticipant(client_id, connection_id), t)]]

\* SessionManager.remove_participant
remove_participant(ss, sid, client_id, t) ==
    IF ~Exists(ss, sid)
    THEN [result |-> "SessionNotFound", sessions |-> ss]
    ELSE [result |-> "ok",
          sessions |-> [ss EXCEPT ![sid] = Session_remove_participant(@, client_id, t)]]

update_session_code_every_session(ss, sid, code, language, t) ==
    IF ~Exists(ss, sid)
    THEN [result |-> "SessionNotFound", sessions |-> ss]
    ELSE [result |-> "ok",
          sessions |-> [x \in DOMAIN ss |-> Session_update_code(ss[x], code, language, t)]]

\* SessionManager.update_session_code
update_session_code(ss, sid, code, language, t) ==
    IF ~Exists(ss, sid)
    THEN [result |-> "SessionNotFound", sessions |-> ss]
    ELSE [result |-> "ok",
          sessions |-> [ss EXCEPT ![sid] = Session_update_code(@, code, language, t)]]

\* SessionManager.add_execution_result
add_execution_result(ss, sid, r, t) ==
    IF ~Exists(ss, sid)
    THEN [result |-> "SessionNotFound", sessions |-> ss]
    ELSE [result |-> "ok",
          sessions |-> [ss EXCEPT ![sid] = Session_add_execution_result(@, r, t)]]

end_session_toggles(ss, sid, t) ==
    IF ~Exists(ss, sid)
    THEN [result |-> "SessionNotFound", sessions |-> ss]
    ELSE [result |-> "ok",
          sessions |-> [ss EXCEPT ![sid].status =
                                      IF @ = "active" THEN "completed" ELSE "active",
                                  ![sid].updated_at = t]]

\* SessionManager.end_session
end_session(ss, sid, t) ==
    IF ~Exists(ss, sid)
    THEN [result |-> "SessionNotFound", sessions |-> ss]
    ELSE [result |-> "ok",
          sessions |-> [ss EXCEPT ![sid].status = "completed", ![sid].updated_at = t]]

\* SessionManager.delete_session
delete_session(ss, ec, sid) ==
    [sessions |-> DictDel(ss, sid), execution_counts |-> DictDel(ec, sid)]

\* the strings random.choices can return (36^12 of them in the source)
StoreIds == {"s1", "s2", "s3", "s4"}

\* number of candidates _generate_session_id draws in one call
MaxDraws == 2

_generate_session_id_unchecked(ss, draws) == Head(draws)

\* SessionManager._generate_session_id: draws is the sequence of random
\* candidates of the `while True` loop, the first one that is not a key of
\* the store is returned
_generate_session_id(ss, draws) ==
    LET free == {i \in 1..Len(draws) : draws[i] \notin DOMAIN ss}
    IN draws[CHOOSE i \in free : \A j \in free : i <= j]

\* settings.max_session_age_hours, and timedelta(hours=...) in seconds
max_session_age_hours == 24
MaxAge == max_session_age_hours * 3600

\* the store size from which _cleanup_old_sessions sweeps (100 in the
\* source), scaled down
CleanupThreshold == 3

_cleanup_old_sessions_any_status(ss, ec, t) ==
    IF Cardinality(DOMAIN ss) < CleanupThreshold
    THEN [sessions |-> ss, execution_counts |-> ec]
    ELSE LET old_sessions == {sid \in DOMAIN ss : ss[sid].updated_at < t - MaxAge}
         IN [sessions |-> [x \in DOMAIN ss \ old_sessions |-> ss[x]],
             execution_counts |-> [x \in DOMAIN ec \ old_sessions |-> ec[x]]]

\* SessionManager._cleanup_old_sessions
_cleanup_old_sessions(ss, ec, t) ==
    IF Cardinality(DOMAIN ss) < CleanupThreshold
    THEN [sessions |-> ss, execution_counts |-> ec]
    ELSE LET old_sessions == {sid \in DOMAIN ss :
                                 ss[sid].updated_at < t - MaxAge
                                     /\ ss[sid].status # "active"}
         IN [sessions |-> [x \in DOMAIN ss \ old_sessions |-> ss[x]],
             execution_counts |-> [x \in DOMAIN ec \ old_sessions |-> ec[x]]]

\* SessionManager.create_session: the new id and the store after the call
\* (the new session is stored, then the sweep runs)
create_session(ss, ec, draws, initial_language, max_participants, t) ==
    LET session_id == _generate_session_id(ss, draws)
        stored == DictSet(ss, session_id,
                          NewSession(initial_language, max_participants, t))
        counts == DictSet(ec, session_id, <<>>)
        swept == _cleanup_old_sessions(stored, counts, t)
    IN [session_id |-> session_id, stored |-> stored,
        sessions |-> swept.sessions, execution_counts |-> swept.execution_counts]

\* timedelta(minutes=1) in check_rate_limit, in seconds
RateWindow == 60

\* settings.rate_limit_executions_per_minute (10 by default), scaled down
rate_limit_executions_per_minute == 2

RECURSIVE NewerThan(_, _)
\* [dt for dt in s if dt > cutoff]
NewerThan(s, cutoff) ==
    IF s = <<>> THEN <<>>
    ELSE IF Head(s) > cutoff
         THEN <<Head(s)>> \o NewerThan(Tail(s), cutoff)
         ELSE NewerThan(Tail(s), cutoff)

\* SessionManager.check_rate_limit: the answer and the windows after the call
check_rate_limit_no_ceiling(ec, sid, t) ==
    LET cur == IF sid \in DOMAIN ec THEN ec[sid] ELSE <<>>
        kept == NewerThan(cur, t - RateWindow)
    IN [result |-> TRUE, execution_counts |-> DictSet(ec, sid, Append(kept, t))]

check_rate_limit_one_window(ec, sid, t) ==
    LET cur == IF sid \in DOMAIN ec THEN ec[sid] ELSE <<>>
        kept == NewerThan(cur, t - RateWindow)
        all == UNION {{<<x, i>> : i \in 1..Len(NewerThan(ec[x], t - RateWindow))} :
                          x \in DOMAIN ec}
    IN IF Cardinality(all) >= rate_limit_executions_per_minute
       THEN [result |-> FALSE, execution_counts |-> DictSet(ec, sid, kept)]
       ELSE [result |-> TRUE, execution_counts |-> DictSet(ec, sid, Append(kept, t))]

check_rate_limit_records_denials(ec, sid, t) ==
    LET cur == IF sid \in DOMAIN ec THEN ec[sid] ELSE <<>>
        kept == NewerThan(cur, t - RateWindow)
    IN [result |-> Len(kept) < rate_limit_executions_per_minute,
        execution_counts |-> DictSet(ec, sid, Append(kept, t))]

check_rate_limit(ec, sid, t) ==
    LET cur == IF sid \in DOMAIN ec THEN ec[sid] ELSE <<>>
        kept == NewerThan(cur, t - RateWindow)
    IN IF Len(kept) >= rate_limit_executions_per_minute
       THEN [result |-> FALSE, execution_counts |-> DictSet(ec, sid, kept)]
       ELSE [result |-> TRUE, execution_counts |-> DictSet(ec, sid, Append(kept, t))]

\* ------------------------------------------------------------------------
\* services/connection_manager.py: ConnectionManager
\* ------------------------------------------------------------------------
\* list.remove(x): drops the first occurrence
RECURSIVE RemoveFirst(_, _)
RemoveFirst(s, x) ==
    IF s = <<>> THEN <<>>
    ELSE IF Head(s) = x THEN Tail(s)
    ELSE <<Head(s)>> \o RemoveFirst(Tail(s), x)

\* ConnectionManager.connect (after websocket.accept())
connect(conns, info, ch, sid, client_id) ==
    [connections |->
         DictSet(conns, sid,
                 Append(IF sid \in DOMAIN conns THEN conns[sid] ELSE <<>>, ch)),
     connection_info |-> DictSet(info, ch, <<sid, client_id>>)]

disconnect_keeps_empty_list(conns, info, ch) ==
    IF ch \notin DOMAIN info
    THEN [sid |-> None, client_id |-> None, connections |-> conns,
          connection_info |-> info, emptied |-> {}]
    ELSE LET sid == info[ch][1]
             inlist == sid \in DOMAIN conns /\ ch \in Range(conns[sid])
         IN [sid |-> sid, client_id |-> info[ch][2],
             connections |->
                 IF ~inlist THEN conns
                 ELSE DictSet(conns, sid, RemoveFirst(conns[sid], ch)),
             connection_info |-> DictDel(info, ch),
             emptied |-> {}]

\* ConnectionManager.disconnect: the returned pair, the registry after the
\* call, and the session ids whose (emptied) list was deleted
disconnect(conns, info, ch) ==
    IF ch \notin DOMAIN info
    THEN [sid |-> None, client_id |-> None, connections |-> conns,
          connection_info |-> info, emptied |-> {}]
    ELSE LET sid == info[ch][1]
             inlist == sid \in DOMAIN conns /\ ch \in Range(conns[sid])
             rest == IF inlist THEN RemoveFirst(conns[sid], ch) ELSE <<>>
         IN [sid |-> sid, client_id |-> info[ch][2],
             connections |->
                 IF ~inlist THEN conns
                 ELSE IF rest = <<>> THEN DictDel(conns, sid)
                 ELSE DictSet(conns, sid, rest),
             connection_info |-> DictDel(info, ch),
             emptied |-> IF inlist /\ rest = <<>> THEN {sid} ELSE {}]

\* the loop `for connection in disconnected: self.disconnect(connection)`
RECURSIVE DisconnectAll(_, _, _)
DisconnectAll(conns, info, dead) ==
    IF dead = <<>>
    THEN [connections |-> conns, connection_info |-> info, emptied |-> {}, unbound |-> {}]
    ELSE LET d == disconnect(conns, info, Head(dead))
             r == DisconnectAll(d.connections, d.connection_info, Tail(dead))
         IN [connections |-> r.connections, connection_info |-> r.connection_info,
             emptied |-> d.emptied \cup r.emptied,
             unbound |-> (IF d.sid # None THEN {Head(dead)} ELSE {}) \cup r.unbound]

\* ConnectionManager.get_session_connections
get_session_connections(conns, sid) ==
    IF sid \in DOMAIN conns THEN Len(conns[sid]) ELSE 0

NoBcast == [active |-> FALSE]

\* A list object that was emptied and deleted from _connections is no longer
\* the list a later connect() creates: loops still iterating it see no items.
MarkStale(bcs, emptied) ==
    [d \in Chans |->
        IF bcs[d].active /\ bcs[d].sid \in emptied
        THEN [bcs[d] EXCEPT !.stale = TRUE] ELSE bcs[d]]

\* index of the next connection the loop sends to (skipping `exclude`)
NextTarget(L, i, exclude) ==
    LET js == {j \in i..Len(L) : L[j] # exclude}
    IN IF js = {} THEN Len(L) + 1 ELSE CHOOSE j \in js : \A k \in js : j <= k

\* the locals of a broadcast_to_session call that is about to start; `start`
\* remembers the channels bound to the session at that moment
NewBcast(conns, sid, msg, exclude, cont) ==
    [active |-> TRUE, sid |-> sid, msg |-> msg, exclude |-> exclude, i |-> 1,
     disconnected |-> <<>>, stale |-> FALSE, cont |-> cont,
     start |-> IF sid \in DOMAIN conns THEN Range(conns[sid]) ELSE {}]

Msg(type, src, n, code, language, count, client_id) ==
    [type |-> type, src |-> src, n |-> n, code |-> code, language |-> language,
     count |-> count, client_id |-> client_id]

ErrorMsg(src, n, code) == Msg("error", src, n, code, None, -1, None)

\* a send_json that is not awaited completes in any order with the earlier
\* sends: the message lands anywhere in what the channel has received
BcastFrom_not_awaited(c, b, conns, info, bcs, log, cl) ==
    LET L == IF b.stale \/ b.sid \notin DOMAIN conns THEN <<>> ELSE conns[b.sid]
        j == NextTarget(L, b.i, b.exclude)
    IN IF j > Len(L)
       THEN LET d == DisconnectAll(conns, info, b.disconnected)
            IN /\ connections' = d.connections
               /\ connection_info' = d.connection_info
               /\ bc' = [MarkStale(bcs, d.emptied) EXCEPT ![c] = NoBcast]
               /\ sent' = log
               /\ cleaned' = [x \in Chans |->
                                 IF x \in d.unbound
                                 THEN [cl[x] EXCEPT !.unbound = @ + 1, !.pruned = @ + 1]
                                 ELSE cl[x]]
               /\ done' = [active |-> TRUE, sid |-> b.sid, msg |-> b.msg,
                           exclude |-> b.exclude, start |-> b.start,
                           failed |-> Range(b.disconnected)]
               /\ pc' = [pc EXCEPT ![c] = b.cont]
       ELSE LET t == L[j]
            IN /\ connections' = conns
               /\ connection_info' = info
               /\ bc' = [bcs EXCEPT ![c] =
                            [b EXCEPT !.i = j + 1,
                                      !.disconnected =
                                          IF alive[t] THEN @ ELSE Append(@, t)]]
               /\ \E k \in 0..Len(log[t]) :
                      sent' = IF alive[t]
                              THEN [log EXCEPT ![t] =
                                       SubSeq(@, 1, k) \o <<b.msg>> \o SubSeq(@, k + 1, Len(@))]
                              ELSE log
               /\ cleaned' = cl
               /\ done' = done
               /\ pc' = [pc EXCEPT ![c] = "bcast"]

\* ConnectionManager.broadcast_to_session, from one await to the next: the
\* loop runs up to and including its next send_json, or, when no connection
\* is left, cleans up the dead connections and returns to the handler.
\* The loop iterates the registry's own list, not a copy.  A send to a
\* channel whose transport is closed raises.
BcastFrom(c, b, conns, info, bcs, log, cl) ==
    LET L == IF b.stale \/ b.sid \notin DOMAIN conns THEN <<>> ELSE conns[b.sid]
        j == NextTarget(L, b.i, b.exclude)
    IN IF j > Len(L)
       THEN LET d == DisconnectAll(conns, info, b.disconnected)
            IN /\ connections' = d.connections
               /\ connection_info' = d.connection_info
               /\ bc' = [MarkStale(bcs, d.emptied) EXCEPT ![c] = NoBcast]
               /\ sent' = log
               /\ cleaned' = [x \in Chans |->
                                 IF x \in d.unbound
                                 THEN [cl[x] EXCEPT !.unbound = @ + 1, !.pruned = @ + 1]
                                 ELSE cl[x]]
               /\ done' = [active |-> TRUE, sid |-> b.sid, msg |-> b.msg,
                           exclude |-> b.exclude, start |-> b.start,
                           failed |-> Range(b.disconnected)]
               /\ pc' = [pc EXCEPT ![c] = b.cont]
       ELSE LET t == L[j]
            IN /\ connections' = conns
               /\ connection_info' = info
               /\ bc' = [bcs EXCEPT ![c] =
                            [b EXCEPT !.i = j + 1,
                                      !.disconnected =
                                          IF alive[t] THEN @ ELSE Append(@, t)]]
               /\ sent' = IF alive[t] THEN [log EXCEPT ![t] = Append(@, b.msg)] ELSE log
               /\ cleaned' = cl
               /\ done' = done
               /\ pc' = [pc EXCEPT ![c] = "bcast"]

\* ------------------------------------------------------------------------
\* The state after start-up and one create_session("python")
\* ------------------------------------------------------------------------
NoCall == [op |-> "none"]
NoCleanup == [bound |-> 0, unbound |-> 0, pruned |-> 0, marked |-> 0, user_left |-> 0]
NewClient == [phase |-> "new", code |-> None, language |-> None, delivered |-> 0]

InitCommon ==
    /\ sessions = [sid \in {"s1"} |-> NewSession("python", MaxParticipants, 0)]
    /\ execution_counts = [sid \in {"s1"} |-> <<>>]
    /\ now = 0
    /\ connections = EmptyDict
    /\ connection_info = EmptyDict
    /\ pc = [c \in Chans |-> "idle"]
    /\ sess = [c \in Chans |-> None]
    /\ ws_client_id = [c \in Chans |-> None]
    /\ bc = [c \in Chans |-> NoBcast]
    /\ alive = [c \in Chans |-> TRUE]
    /\ sent = [c \in Chans |-> <<>>]
    /\ inbound = 0
    /\ client = [c \in Chans |-> NewClient]
    /\ to_server = [c \in Chans |-> <<>>]
    /\ cleaned = [c \in Chans |-> NoCleanup]
    /\ done = NoBcast
    /\ admitted = [sid \in SessionIds |-> <<>>]
    /\ last = NoCall

InitStore == InitCommon /\ budget = 0

\* ------------------------------------------------------------------------
\* The Session Store driven by add_participant calls only
\* ------------------------------------------------------------------------
CallAddParticipant(sid, client_id, connection_id) ==
    LET r == add_participant(sessions, sid, client_id, connection_id, now)
    IN /\ sessions' = r.sessions
       /\ last' = [op |-> "add_participant", sid |-> sid, client_id |-> client_id,
                   result |-> r.result,
                   was_member |-> Exists(sessions, sid)
                                  /\ get_participant(sessions[sid], client_id) # NoParticipant,
                   before |-> sessions]
       /\ UNCHANGED <<execution_counts, now, admitted, regVars, wsVars, clientVars>>

NextAdd ==
    \E sid \in SessionIds, client_id \in ClientIds, connection_id \in Chans :
        CallAddParticipant(sid, client_id, connection_id)

SpecAdd == InitStore /\ [][NextAdd]_vars

\* C1: after any sequence of add_participant calls the number of connected
\* participants of a session never exceeds max_participants; a call for a
\* client that is not a member of a full session is rejected, and a rejoin
\* of a present client replaces its record without raising the count.
C1_CountWithinCapacity ==
    /\ \A sid \in DOMAIN sessions :
           participant_count(sessions[sid]) <= sessions[sid].max_participants
    /\ (last.op = "add_participant" /\ Exists(last.before, last.sid)) =>
          LET b == last.before[last.sid]
              a == sessions[last.sid]
          IN /\ (~last.was_member /\ participant_count(b) >= b.max_participants)
                    => (last.result = "SessionFull" /\ sessions = last.before)
             /\ last.was_member
                    => /\ last.result = "ok"
                       /\ participant_count(a) = participant_count(b)
                       /\ Len(a.participants) = Len(b.participants)

C1_Witness ==
    /\ last.op = "add_participant"
    /\ last.result = "SessionFull"
    /\ participant_count(sessions[last.sid]) = sessions[last.sid].max_participants

\* ------------------------------------------------------------------------
\* The Rate Limiter driven by check_rate_limit calls while time passes
\* ------------------------------------------------------------------------
\* the instants at which calls are made (seconds)
Instants == {0, 1, 59, 60, 61, 120, 121}

Tick ==
    /\ \E t \in Instants : t > now /\ now' = t
    /\ UNCHANGED <<sessions, execution_counts, admitted, regVars, wsVars, clientVars, last>>

CallCheckRateLimit(sid) ==
    LET r == check_rate_limit(execution_counts, sid, now)
    IN /\ execution_counts' = r.execution_counts
       /\ admitted' = IF r.result THEN [admitted EXCEPT ![sid] = Append(@, now)]
                      ELSE admitted
       /\ last' = [op |-> "check_rate_limit", sid |-> sid, t |-> now,
                   result |-> r.result, prior |-> admitted[sid],
                   before |-> execution_counts]
       /\ UNCHANGED <<sessions, now, regVars, wsVars, clientVars>>

NextRate ==
    \/ Tick
    \/ \E sid \in SessionIds : CallCheckRateLimit(sid)

SpecRate == InitStore /\ [][NextRate]_vars

\* C9: with ceiling N, once N admit calls of a session have returned true,
\* the next admit call made within 60 seconds of the first of them returns
\* false, and an admit call made more than 60 seconds after that first call
\* returns true.
C9_WindowOfSixtySeconds ==
    (last.op = "check_rate_limit"
        /\ Len(last.prior) >= rate_limit_executions_per_minute) =>
        LET first == last.prior[Len(last.prior) - rate_limit_executions_per_minute + 1]
        IN /\ (last.t - first <= RateWindow) => (last.result = FALSE)
           /\ (last.t - first > RateWindow) => (last.result = TRUE)

\* ------------------------------------------------------------------------
\* api/routes/websocket.py: websocket_endpoint, one handler per channel
\* ------------------------------------------------------------------------
\* number of inbound messages the handlers read in one run
MaxInbound == 2

\* number of transports that are lost in one run
MaxDrops == 1

\* what code_executor.execute can do: return a result with exit code 0,
\* return the timeout result (exit code -1, error set), or raise
SandboxOutcomes == {"ok", "timeout", "raises"}

ExecutionResult(outcome, by) ==
    [exit_code |-> IF outcome = "ok" THEN 0 ELSE -1,
     error |-> outcome # "ok",
     success |-> outcome = "ok",
     executed_by |-> by]

\* what the finally block found and did, for the channel's joined client
CleanupEvent(c, u, ss, after, ran) ==
    LET p == IF Exists(ss, sess[c]) /\ u # None
             THEN get_participant(ss[sess[c]], u) ELSE NoParticipant
        q == IF Exists(after, sess[c]) /\ u # None
             THEN get_participant(after[sess[c]], u) ELSE NoParticipant
    IN [op |-> "cleanup", chan |-> c, ran |-> ran, joined |-> u,
        \* disconnect returned a pair and remove_participant (line 326, outside
        \* the try block) raised SessionNotFoundException
        raised |-> c \in DOMAIN connection_info /\ ~ran,
        was_connected |-> p # NoParticipant /\ p.is_connected /\ p.connection_id = c,
        still_connected |-> q # NoParticipant /\ q.is_connected,
        count_before |-> IF Exists(ss, sess[c])
                         THEN participant_count(ss[sess[c]]) ELSE 0,
        count_after |-> IF Exists(after, sess[c])
                        THEN participant_count(after[sess[c]]) ELSE 0]

\* the `finally` block of websocket_endpoint, up to its first await.
\* u is the handler's local client_id, ss and log are the store and the
\* send log as the handler left them.
CleanupFrom(c, u, ss, log) ==
    LET d == disconnect(connections, connection_info, c)
        bcs == [MarkStale(bc, d.emptied) EXCEPT ![c] = NoBcast]
    IN IF d.sid = None
       THEN /\ sessions' = ss
            /\ UNCHANGED <<connections, connection_info, cleaned, done>>
            /\ bc' = bcs
            /\ sent' = log
            /\ pc' = [pc EXCEPT ![c] = "closed"]
            /\ last' = CleanupEvent(c, u, ss, ss, FALSE)
       ELSE LET r == remove_participant(ss, d.sid, d.client_id, now)
                cl == [cleaned EXCEPT
                          ![c].unbound = @ + 1,
                          ![c].marked = IF r.result = "ok"
                                           /\ d.client_id = u
                                        THEN @ + 1 ELSE @,
                          ![c].user_left = IF r.result = "ok" THEN @ + 1 ELSE @]
            IN IF r.result # "ok"
               THEN \* SessionNotFoundException leaves the finally block
                    /\ sessions' = ss
                    /\ connections' = d.connections
                    /\ connection_info' = d.connection_info
                    /\ bc' = bcs
                    /\ sent' = log
                    /\ cleaned' = cl
                    /\ done' = done
                    /\ pc' = [pc EXCEPT ![c] = "closed"]
                    /\ last' = CleanupEvent(c, u, ss, ss, FALSE)
               ELSE /\ sessions' = r.sessions
                    /\ last' = CleanupEvent(c, u, ss, r.sessions, TRUE)
                    /\ BcastFrom(c,
                                 NewBcast(d.connections, d.sid,
                                          Msg("user_left", c, inbound', None, None,
                                              participant_count(r.sessions[d.sid]),
                                              d.client_id),
                                          None, "closed"),
                                 d.connections, d.connection_info, bcs, log, cl)

\* a reply to the handler's own channel; a failed send raises, the handler's
\* INTERNAL_ERROR reply fails as well and the finally block runs
ReplyThen(c, u, msg, ss, ev) ==
    IF alive[c]
    THEN /\ sessions' = ss
         /\ sent' = [sent EXCEPT ![c] = Append(@, msg)]
         /\ last' = ev
         /\ UNCHANGED <<connections, connection_info, bc, cleaned, done, pc>>
    ELSE CleanupFrom(c, u, ss, sent)

Earlier(c) == {ChanOrder[i] : i \in {j \in 1..Len(ChanOrder) :
                                        \E k \in (j + 1)..Len(ChanOrder) : ChanOrder[k] = c}}

Connect_binds_first(c, sid) ==
    /\ pc[c] = "idle"
    /\ \A d \in Earlier(c) : pc[d] # "idle"
    /\ sess' = [sess EXCEPT ![c] = sid]
    /\ LET r == connect(connections, connection_info, c, sid, "unknown")
       IN /\ connections' = r.connections
          /\ connection_info' = r.connection_info
          /\ cleaned' = [cleaned EXCEPT ![c].bound = @ + 1]
    /\ IF Exists(sessions, sid)
       THEN /\ pc' = [pc EXCEPT ![c] = "recv"]
            /\ sent' = sent
       ELSE /\ pc' = [pc EXCEPT ![c] = "closed"]
            /\ sent' = [sent EXCEPT ![c] =
                           Append(@, ErrorMsg(c, inbound, "SESSION_NOT_FOUND"))]
    /\ last' = [op |-> "connect", chan |-> c, found |-> Exists(sessions, sid)]
    /\ UNCHANGED <<storeVars, ws_client_id, bc, alive, inbound, budget, done, clientVars>>

\* lines 53-73: the session lookup and connection_manager.connect
Connect(c, sid) ==
    /\ pc[c] = "idle"
    /\ \A d \in Earlier(c) : pc[d] # "idle"
    /\ sess' = [sess EXCEPT ![c] = sid]
    /\ IF Exists(sessions, sid)
       THEN LET r == connect(connections, connection_info, c, sid, "unknown")
            IN /\ connections' = r.connections
               /\ connection_info' = r.connection_info
               /\ pc' = [pc EXCEPT ![c] = "recv"]
               /\ sent' = sent
               /\ cleaned' = [cleaned EXCEPT ![c].bound = @ + 1]
       ELSE /\ UNCHANGED <<connections, connection_info, cleaned>>
            /\ pc' = [pc EXCEPT ![c] = "closed"]
            /\ sent' = [sent EXCEPT ![c] =
                           Append(@, ErrorMsg(c, inbound, "SESSION_NOT_FOUND"))]
    /\ last' = [op |-> "connect", chan |-> c, found |-> Exists(sessions, sid)]
    /\ UNCHANGED <<storeVars, ws_client_id, bc, alive, inbound, budget, done, clientVars>>

\* the client closes the transport, or the network drops it
TransportClose(c) ==
    /\ pc[c] \notin {"idle", "closed"}
    /\ alive[c]
    /\ Cardinality({d \in Chans : ~alive[d]}) < MaxDrops
    /\ alive' = [alive EXCEPT ![c] = FALSE]
    /\ UNCHANGED <<storeVars, regVars, pc, sess, ws_client_id, bc, sent, inbound,
                   budget, cleaned, done, clientVars, last>>

\* receive_json returns the next message of channel c
Receiving(c) ==
    /\ pc[c] = "recv"
    /\ inbound < budget
    /\ inbound' = inbound + 1

\* lines 108-141 and 168-176: join_session up to the session_state reply
join_session(c, u) ==
    /\ Receiving(c)
    /\ ws_client_id' = [ws_client_id EXCEPT ![c] = u]
    /\ LET r == add_participant(sessions, sess[c], u, c, now)
           \* listed: the client ids in the `participants` list of session_state
           ev == [op |-> "join_session", chan |-> c, n |-> inbound', result |-> r.result,
                  listed |-> IF r.result = "ok"
                             THEN {p.client_id : p \in
                                      {q \in Range(r.sessions[sess[c]].participants) :
                                           q.is_connected}}
                             ELSE {}]
       IN IF r.result = "ok" /\ alive[c]
          THEN /\ sessions' = r.sessions
               /\ sent' = [sent EXCEPT ![c] =
                              Append(@, Msg("session_state", c, inbound',
                                            r.sessions[sess[c]].current_code,
                                            r.sessions[sess[c]].current_language,
                                            participant_count(r.sessions[sess[c]]), u))]
               /\ pc' = [pc EXCEPT ![c] = "joined"]
               /\ bc' = [bc EXCEPT ![c] = [active |-> FALSE, n |-> inbound']]
               /\ last' = ev
               /\ UNCHANGED <<connections, connection_info, cleaned, done>>
          ELSE ReplyThen(c, u, ErrorMsg(c, inbound', "JOIN_FAILED"), r.sessions, ev)
    /\ UNCHANGED <<execution_counts, now, admitted, sess, alive, budget>>

\* lines 143-166: the user_joined broadcast, built after the reply was sent
JoinBroadcast(c) ==
    /\ pc[c] = "joined"
    /\ BcastFrom(c,
                 NewBcast(connections, sess[c],
                          Msg("user_joined", c, bc[c].n, None, None,
                              participant_count(sessions[sess[c]]), ws_client_id[c]),
                          c, "recv"),
                 connections, connection_info, bc, sent, cleaned)
    /\ last' = [op |-> "user_joined", chan |-> c, n |-> bc[c].n]
    /\ UNCHANGED <<storeVars, sess, ws_client_id, alive, inbound, budget, clientVars>>

\* lines 178-203: code_update
code_update(c, code, language) ==
    /\ Receiving(c)
    /\ LET r == update_session_code(sessions, sess[c], code, language, now)
       IN IF r.result = "ok"
          THEN /\ sessions' = r.sessions
               /\ last' = [op |-> "code_update", chan |-> c, n |-> inbound',
                           code |-> code, language |-> language]
               /\ BcastFrom(c,
                            NewBcast(connections, sess[c],
                                     Msg("code_update", c, inbound', code, language,
                                         -1, None),
                                     c, "recv"),
                            connections, connection_info, bc, sent, cleaned)
          ELSE \* SessionNotFoundException reaches the outer handler
               CleanupFrom(c, ws_client_id[c], sessions,
                           IF alive[c]
                           THEN [sent EXCEPT ![c] =
                                    Append(@, ErrorMsg(c, inbound', "INTERNAL_ERROR"))]
                           ELSE sent)
    /\ UNCHANGED <<execution_counts, now, admitted, sess, ws_client_id, alive, budget>>

\* lines 205-225: language_change writes through the handler's Session object
language_change(c, language) ==
    /\ Receiving(c)
    /\ sessions' = [sessions EXCEPT ![sess[c]].current_language = language,
                                    ![sess[c]].updated_at = now]
    /\ last' = [op |-> "language_change", chan |-> c, n |-> inbound',
                language |-> language]
    /\ BcastFrom(c,
                 NewBcast(connections, sess[c],
                          Msg("language_change", c, inbound', None, language, -1, None),
                          c, "recv"),
                 connections, connection_info, bc, sent, cleaned)
    /\ UNCHANGED <<execution_counts, now, admitted, sess, ws_client_id, alive, budget>>

\* lines 227-295: execute_code
execute_code(c, outcome) ==
    /\ Receiving(c)
    /\ LET rl == check_rate_limit(execution_counts, sess[c], now)
           res == ExecutionResult(outcome, c)
           ar == add_execution_result(sessions, sess[c], res, now)
           ev == [op |-> "execute_code", chan |-> c, n |-> inbound',
                  admitted |-> rl.result, outcome |-> outcome,
                  executed |-> rl.result,
                  appended |-> rl.result /\ outcome # "raises" /\ ar.result = "ok"]
       IN /\ execution_counts' = rl.execution_counts
          /\ admitted' = IF rl.result
                         THEN [admitted EXCEPT ![sess[c]] = Append(@, now)]
                         ELSE admitted
          /\ IF ~rl.result
             THEN /\ outcome = "ok"
                  /\ ReplyThen(c, ws_client_id[c], ErrorMsg(c, inbound', "RATE_LIMIT_EXCEEDED"),
                               sessions, ev)
             ELSE IF outcome = "raises" \/ ar.result # "ok"
             THEN ReplyThen(c, ws_client_id[c], ErrorMsg(c, inbound', "EXECUTION_FAILED"), sessions, ev)
             ELSE /\ sessions' = ar.sessions
                  /\ last' = ev
                  /\ BcastFrom(c,
                               NewBcast(connections, sess[c],
                                        Msg("execution_result", c, inbound', None, None,
                                            res.exit_code, None),
                                        None, "recv"),
                               connections, connection_info, bc, sent, cleaned)
    /\ UNCHANGED <<now, sess, ws_client_id, alive, budget>>

\* lines 297-299 and the finally block: leave_session
leave_session(c) ==
    /\ Receiving(c)
    /\ CleanupFrom(c, ws_client_id[c], sessions, sent)
    /\ UNCHANGED <<execution_counts, now, admitted, sess, ws_client_id, alive, budget>>

invalid_message_closes(c) ==
    /\ Receiving(c)
    /\ LET d == disconnect(connections, connection_info, c)
       IN /\ connections' = d.connections
          /\ connection_info' = d.connection_info
    /\ sessions' = sessions
    /\ sent' = [sent EXCEPT ![c] = Append(@, ErrorMsg(c, inbound', "INVALID_MESSAGE"))]
    /\ pc' = [pc EXCEPT ![c] = "closed"]
    /\ last' = [op |-> "invalid", chan |-> c, n |-> inbound']
    /\ UNCHANGED <<bc, cleaned, done>>
    /\ UNCHANGED <<execution_counts, now, admitted, sess, ws_client_id, alive, budget>>

\* lines 78-103: invalid JSON, a missing or unknown type, or missing fields
invalid_message(c) ==
    /\ Receiving(c)
    /\ ReplyThen(c, ws_client_id[c], ErrorMsg(c, inbound', "INVALID_MESSAGE"), sessions,
                 [op |-> "invalid", chan |-> c, n |-> inbound'])
    /\ UNCHANGED <<execution_counts, now, admitted, sess, ws_client_id, alive, budget>>

\* the handlers as driven by clients that are not modelled further
RecvJoin(c, u) == join_session(c, u) /\ UNCHANGED clientVars
RecvCodeUpdate(c, code, language) == code_update(c, code, language) /\ UNCHANGED clientVars
RecvLanguageChange(c, language) == language_change(c, language) /\ UNCHANGED clientVars
RecvExecute(c, outcome) == execute_code(c, outcome) /\ UNCHANGED clientVars
RecvLeave(c) == leave_session(c) /\ UNCHANGED clientVars
RecvInvalid(c) == invalid_message(c) /\ UNCHANGED clientVars

\* lines 301-303 and the finally block: receive_json raises WebSocketDisconnect
RecvDisconnect(c) ==
    /\ pc[c] = "recv"
    /\ ~alive[c]
    /\ inbound' = inbound
    /\ CleanupFrom(c, ws_client_id[c], sessions, sent)
    /\ UNCHANGED <<execution_counts, now, admitted, sess, ws_client_id, alive, budget,
                   clientVars>>

\* the broadcast a handler is in resumes after an await
BcastStep(c) ==
    /\ pc[c] = "bcast"
    /\ BcastFrom(c, bc[c], connections, connection_info, bc, sent, cleaned)
    /\ UNCHANGED <<storeVars, sess, ws_client_id, alive, inbound, budget, clientVars, last>>

NextWS ==
    \/ \E c \in Chans, sid \in SessionIds : Connect(c, sid)
    \/ \E c \in Chans : TransportClose(c)
    \/ \E c \in Chans : \E u \in JoinIds(c) : RecvJoin(c, u)
    \/ \E c \in Chans : JoinBroadcast(c)
    \/ \E c \in Chans, cu \in CodeUpdates : RecvCodeUpdate(c, cu[1], cu[2])
    \/ \E c \in Chans, language \in Langs : RecvLanguageChange(c, language)
    \/ \E c \in Chans, outcome \in SandboxOutcomes : RecvExecute(c, outcome)
    \/ \E c \in Chans : RecvLeave(c)
    \/ \E c \in Chans : RecvInvalid(c)
    \/ \E c \in Chans : RecvDisconnect(c)
    \/ \E c \in Chans : BcastStep(c)

InitWS == InitCommon /\ budget = MaxInbound

SpecWS == InitWS /\ [][NextWS]_vars

\* ------------------------------------------------------------------------
\* Collaborative editing: two clients connect to one session, join, send
\* code_update messages and leave or lose their transport
\* ------------------------------------------------------------------------
EditChans == {"c1", "c2"}

NextEdit ==
    \/ \E c \in EditChans : Connect(c, "s1")
    \/ \E c \in EditChans : TransportClose(c)
    \/ \E c \in EditChans : \E u \in JoinIds(c) : RecvJoin(c, u)
    \/ \E c \in EditChans : JoinBroadcast(c)
    \/ \E c \in EditChans, cu \in CodeUpdates : RecvCodeUpdate(c, cu[1], cu[2])
    \/ \E c \in EditChans : RecvLeave(c)
    \/ \E c \in EditChans : RecvDisconnect(c)
    \/ \E c \in EditChans : BcastStep(c)

SpecEdit == InitWS /\ [][NextEdit]_vars

\* ------------------------------------------------------------------------
\* A room of three channels on one session
\* ------------------------------------------------------------------------
NextRoom ==
    \/ \E c \in Chans : Connect(c, "s1")
    \/ \E c \in Chans : TransportClose(c)
    \/ \E c \in Chans : \E u \in JoinIds(c) : RecvJoin(c, u)
    \/ \E c \in Chans : JoinBroadcast(c)
    \/ \E c \in Chans, cu \in CodeUpdates : RecvCodeUpdate(c, cu[1], cu[2])
    \/ \E c \in Chans : RecvLeave(c)
    \/ \E c \in Chans : RecvDisconnect(c)
    \/ \E c \in Chans : BcastStep(c)

SpecRoom == InitWS /\ [][NextRoom]_vars

\* ------------------------------------------------------------------------
\* Code execution: execute_code over the channels and over HTTP
\* ------------------------------------------------------------------------
\* api/routes/execution.py: POST /sessions/{session_id}/execute
HttpExecute(sid, outcome) ==
    IF ~Exists(sessions, sid)
    THEN /\ outcome = "ok"
         /\ last' = [op |-> "http_execute", sid |-> sid, status |-> 404,
                     executed |-> FALSE]
         /\ UNCHANGED <<storeVars, regVars, wsVars, clientVars>>
    ELSE LET rl == check_rate_limit(execution_counts, sid, now)
             res == ExecutionResult(outcome, None)
             ar == add_execution_result(sessions, sid, res, now)
         IN /\ execution_counts' = rl.execution_counts
            /\ admitted' = IF rl.result THEN [admitted EXCEPT ![sid] = Append(@, now)]
                           ELSE admitted
            /\ IF ~rl.result
               THEN /\ outcome = "ok"
                    /\ sessions' = sessions
                    /\ last' = [op |-> "http_execute", sid |-> sid, status |-> 429,
                                executed |-> FALSE]
               ELSE IF outcome = "raises" \/ ar.result # "ok"
               THEN /\ sessions' = sessions
                    /\ last' = [op |-> "http_execute", sid |-> sid, status |-> 500,
                                executed |-> TRUE]
               ELSE /\ sessions' = ar.sessions
                    /\ last' = [op |-> "http_execute", sid |-> sid, status |-> 200,
                                executed |-> TRUE]
            /\ UNCHANGED <<now, regVars, wsVars, clientVars>>

NextExec ==
    \/ \E c \in EditChans : Connect(c, "s1")
    \/ \E c \in EditChans : TransportClose(c)
    \/ \E c \in EditChans, outcome \in SandboxOutcomes : RecvExecute(c, outcome)
    \/ \E sid \in SessionIds, outcome \in SandboxOutcomes : HttpExecute(sid, outcome)
    \/ \E c \in EditChans : RecvLeave(c)
    \/ \E c \in EditChans : RecvDisconnect(c)
    \/ \E c \in EditChans : BcastStep(c)

SpecExec == InitWS /\ [][NextExec]_vars

\* the same over transports that stay open
NextLimit ==
    \/ \E c \in EditChans : Connect(c, "s1")
    \/ \E c \in EditChans, outcome \in SandboxOutcomes : RecvExecute(c, outcome)
    \/ \E sid \in SessionIds, outcome \in SandboxOutcomes : HttpExecute(sid, outcome)
    \/ \E c \in EditChans : RecvLeave(c)
    \/ \E c \in EditChans : BcastStep(c)

SpecLimit == InitWS /\ [][NextLimit]_vars

\* ------------------------------------------------------------------------
\* Clients that keep a copy of the code (tests/test_e2e.py: ReactClient)
\* ------------------------------------------------------------------------
\* the client id and the payload each client uses
SyncId(c) == IF c = "c1" THEN "u1" ELSE "u2"
Payload(c) == IF c = "c1" THEN "X" ELSE "Y"

\* ReactClient.connect_websocket: the join_session message
ClientJoin(c) ==
    /\ client[c].phase = "new"
    /\ pc[c] = "recv"
    /\ client' = [client EXCEPT ![c].phase = "joining"]
    /\ to_server' = [to_server EXCEPT ![c] =
                        Append(@, [type |-> "join_session", client_id |-> SyncId(c)])]
    /\ UNCHANGED <<storeVars, regVars, wsVars, last>>

\* ReactClient.update_code, once every client has joined
ClientUpdate(c) ==
    /\ client[c].phase = "joined"
    /\ \A d \in EditChans : client[d].phase \in {"joined", "sent"}
    /\ client' = [client EXCEPT ![c].phase = "sent", ![c].code = Payload(c)]
    /\ to_server' = [to_server EXCEPT ![c] =
                        Append(@, [type |-> "code_update", code |-> Payload(c),
                                   language |-> client[c].language])]
    /\ UNCHANGED <<storeVars, regVars, wsVars, last>>

\* ReactClient._handle_websocket_message on the next delivered message
ClientRecv(c) ==
    /\ client[c].delivered < Len(sent[c])
    /\ LET m == sent[c][client[c].delivered + 1]
       IN client' = [client EXCEPT
              ![c].delivered = @ + 1,
              ![c].code = IF m.type \in {"session_state", "code_update"}
                          THEN m.code ELSE @,
              ![c].language = IF m.type \in {"session_state", "code_update",
                                             "language_change"}
                              THEN m.language ELSE @,
              ![c].phase = IF m.type = "session_state" /\ @ = "joining"
                           THEN "joined" ELSE @]
    /\ UNCHANGED <<storeVars, regVars, wsVars, to_server, last>>

\* receive_json returns the message at the head of the channel's queue
ServeJoin(c) ==
    /\ to_server[c] # <<>>
    /\ Head(to_server[c]).type = "join_session"
    /\ join_session(c, Head(to_server[c]).client_id)
    /\ to_server' = [to_server EXCEPT ![c] = Tail(@)]
    /\ client' = client

ServeCodeUpdate(c) ==
    /\ to_server[c] # <<>>
    /\ Head(to_server[c]).type = "code_update"
    /\ code_update(c, Head(to_server[c]).code, Head(to_server[c]).language)
    /\ to_server' = [to_server EXCEPT ![c] = Tail(@)]
    /\ client' = client

NextSync ==
    \/ \E c \in EditChans : Connect(c, "s1")
    \/ \E c \in EditChans : ClientJoin(c)
    \/ \E c \in EditChans : ServeJoin(c)
    \/ \E c \in EditChans : JoinBroadcast(c)
    \/ \E c \in EditChans : ClientUpdate(c)
    \/ \E c \in EditChans : ServeCodeUpdate(c)
    \/ \E c \in EditChans : BcastStep(c)
    \/ \E c \in EditChans : ClientRecv(c)

\* each client sends one join_session and one code_update
InitSync == InitCommon /\ budget = 2 * Cardinality(EditChans)

SpecSync == InitSync /\ [][NextSync]_vars

\* ------------------------------------------------------------------------
\* Properties of the channel handlers
\* ------------------------------------------------------------------------
\* C2: for every connection that was bound, once its handler has ended the
\* terminal cleanup has run exactly once whichever exit path ended the
\* loop: the channel was unbound from the registry once, user_left was
\* broadcast once, and no participant record of the channel is still
\* marked connected (nor was one marked more than once).
C2_CleanupExactlyOnce ==
    \A c \in Chans :
        (pc[c] = "closed" /\ cleaned[c].bound = 1) =>
            /\ cleaned[c].unbound = 1
            /\ cleaned[c].user_left = 1
            /\ cleaned[c].marked <= 1
            /\ \A p \in Range(sessions[sess[c]].participants) :
                   p.connection_id = c => ~p.is_connected

\* C3: when the channel of a client that has joined closes, the cleanup
\* marks that client's participant record disconnected, so that the
\* participant count of the session goes down by one (the count the
\* user_left message carries is the count after the cleanup).
C3_CleanupLowersCount ==
    (last.op = "cleanup" /\ last.joined # None /\ last.was_connected) =>
        /\ last.ran
        /\ ~last.still_connected
        /\ last.count_after = last.count_before - 1

\* C4: a code_update received from channel A has, when its broadcast is
\* over, been sent to every other channel that was bound to the session and
\* still is (with an open transport), and never to A's own channel.
C4_CodeUpdateToAllOthers ==
    (done.active /\ done.msg.type = "code_update") =>
        /\ \A d \in done.start \ {done.exclude} :
               (d \in DOMAIN connection_info /\ alive[d])
                   => \E i \in 1..Len(sent[d]) : sent[d][i] = done.msg
        /\ \A i \in 1..Len(sent[done.exclude]) : sent[done.exclude][i] # done.msg

\* C5: for an admitted execute_code message whose Sandbox run returned, the
\* result is in the execution history and, when the broadcast is over, the
\* execution_result message has been sent to every channel that was bound
\* to the session and still is (with an open transport), sender included.
C5_ResultToAllAndHistory ==
    (done.active /\ done.msg.type = "execution_result") =>
        /\ \E i \in 1..Len(sessions[done.sid].execution_history) :
               sessions[done.sid].execution_history[i].executed_by = done.msg.src
        /\ \A d \in done.start :
               (d \in DOMAIN connection_info /\ alive[d])
                   => \E i \in 1..Len(sent[d]) : sent[d][i] = done.msg

\* every message and every broadcast has been delivered
Quiescent ==
    \A c \in EditChans :
        /\ client[c].phase = "sent"
        /\ to_server[c] = <<>>
        /\ pc[c] = "recv"
        /\ client[c].delivered = Len(sent[c])

\* C6: when the joined clients have each sent a code_update with a payload
\* of their own and everything has been delivered, all clients hold the
\* same code and it is the session's current_code.
C6_ClientsConverge ==
    Quiescent => \A c \in EditChans : client[c].code = sessions["s1"].current_code

\* C7: in every reachable state the (current_code, current_language) pair
\* of a session is the initial pair or the pair of one code_update message,
\* and after a code_update it is that message's pair.
C7_PairOfOneMessage ==
    /\ \A sid \in DOMAIN sessions :
           <<sessions[sid].current_code, sessions[sid].current_language>>
               \in {<<_get_default_code("python"), "python">>} \cup CodeUpdates
    /\ last.op = "code_update" =>
           /\ sessions[sess[last.chan]].current_code = last.code
           /\ sessions[sess[last.chan]].current_language = last.language

C7_Witness ==
    /\ last.op = "code_update"
    /\ sessions["s1"].current_code = last.code
    /\ \E d \in Chans : \E i \in 1..Len(sent[d]) :
           sent[d][i].type = "code_update" /\ sent[d][i].code # last.code

\* the broadcasts a client message gives rise to
ClientCaused == {"user_joined", "code_update", "language_change", "execution_result"}

\* C8: a channel that receives the broadcasts of two messages of one other
\* client receives them in the order in which the server received the
\* messages (n numbers the messages in the order of their receipt).
C8_BroadcastsInReceiptOrder ==
    \A d \in Chans : \A i, j \in 1..Len(sent[d]) :
        (i < j /\ sent[d][i].src = sent[d][j].src /\ sent[d][i].src # d
             /\ sent[d][i].type \in ClientCaused /\ sent[d][j].type \in ClientCaused)
            => sent[d][i].n < sent[d][j].n

C8_Witness ==
    \E d \in Chans : \E i, j \in 1..Len(sent[d]) :
        /\ i < j
        /\ sent[d][i].src = sent[d][j].src /\ sent[d][i].src # d
        /\ sent[d][i].type = "code_update" /\ sent[d][j].type = "code_update"

\* the session's window holds the ceiling's number of admitted executions
WindowFull(sid) ==
    Len(NewerThan(admitted[sid], now - RateWindow)) >= rate_limit_executions_per_minute

\* C10: an execute_code message that arrives while the window of its session
\* is full has one effect only, the RATE_LIMIT_EXCEEDED error sent to the
\* sender: the Sandbox is not run, the Session Store and so the execution
\* history do not change, no other channel is sent anything, and the
\* connection stays bound and goes on reading.  Over HTTP the request is
\* answered 429 and changes nothing.
C10_DenialOnlyReplies ==
    [][/\ \A c \in Chans :
            (/\ last'.op = "execute_code" /\ last'.chan = c
             /\ inbound' = inbound + 1
             /\ alive[c]
             /\ WindowFull(sess[c]))
            => /\ ~last'.executed
               /\ sessions' = sessions
               /\ admitted' = admitted
               /\ sent' = [sent EXCEPT ![c] =
                              Append(@, ErrorMsg(c, inbound', "RATE_LIMIT_EXCEEDED"))]
               /\ connections' = connections
               /\ connection_info' = connection_info
               /\ pc'[c] = "recv"
               /\ bc' = bc
        /\ \A sid \in DOMAIN sessions :
            (/\ last'.op = "http_execute" /\ last'.sid = sid
             /\ last' # last
             /\ WindowFull(sid))
            => /\ last'.status = 429
               /\ ~last'.executed
               /\ sessions' = sessions
               /\ admitted' = admitted
               /\ sent' = sent
      ]_vars

C10_Witness ==
    /\ last.op = "execute_code"
    /\ ~last.admitted
    /\ pc[last.chan] = "recv"
    /\ sent[last.chan] # <<>>
    /\ sent[last.chan][Len(sent[last.chan])].code = "RATE_LIMIT_EXCEEDED"
    /\ \E d \in Chans : d # last.chan /\ pc[d] = "recv"

\* ------------------------------------------------------------------------
\* The execution history driven by add_execution_result calls
\* ------------------------------------------------------------------------
\* number of results appended in one run
MaxResults == 52

\* the k-th result handed to add_execution_result (duration_ms tells the
\* results apart)
NumberedResult(k) ==
    [exit_code |-> 0, error |-> FALSE, success |-> TRUE, executed_by |-> None,
     duration_ms |-> k]

\* number of results appended so far
Appended == IF last.op = "add_execution_result" THEN last.k ELSE 0

CallAddExecutionResult(sid) ==
    LET r == add_execution_result(sessions, sid, NumberedResult(Appended + 1), now)
    IN /\ Appended < MaxResults
       /\ sessions' = r.sessions
       /\ last' = [op |-> "add_execution_result", sid |-> sid, result |-> r.result,
                   k |-> IF r.result = "ok" THEN Appended + 1 ELSE Appended]
       /\ UNCHANGED <<execution_counts, now, admitted, regVars, wsVars, clientVars>>

NextHist ==
    \/ Tick
    \/ \E sid \in SessionIds : CallAddExecutionResult(sid)

SpecHist == InitStore /\ [][NextHist]_vars

\* C11: after any sequence of add_execution_result calls the history of a
\* session has at most 50 entries and is the sequence of the most recent
\* min(k, 50) results in the order in which they were appended.
C11_HistoryIsLastFifty ==
    LET h == sessions["s1"].execution_history
        m == IF Appended < 50 THEN Appended ELSE 50
    IN /\ Len(h) <= 50
       /\ Len(h) = m
       /\ \A i \in 1..m : h[i] = NumberedResult(Appended - m + i)

C11_Witness ==
    /\ Appended > 51
    /\ Len(sessions["s1"].execution_history) = 50
    /\ sessions["s1"].execution_history[1] = NumberedResult(Appended - 49)

\* ------------------------------------------------------------------------
\* The participant lists driven by add_participant and remove_participant
\* calls while time passes
\* ------------------------------------------------------------------------
CallRemoveParticipant(sid, client_id) ==
    LET r == remove_participant(sessions, sid, client_id, now)
    IN /\ sessions' = r.sessions
       /\ last' = [op |-> "remove_participant", sid |-> sid, client_id |-> client_id,
                   result |-> r.result, before |-> sessions]
       /\ UNCHANGED <<execution_counts, now, admitted, regVars, wsVars, clientVars>>

\* number of clock readings that differ in one run
MaxClock == 2

\* datetime.now() returns a later value
Advance ==
    /\ now < MaxClock
    /\ now' = now + 1
    /\ UNCHANGED <<sessions, execution_counts, admitted, regVars, wsVars, clientVars, last>>

NextMembers ==
    \/ Advance
    \/ \E sid \in SessionIds, client_id \in ClientIds, connection_id \in EditChans :
           CallAddParticipant(sid, client_id, connection_id)
    \/ \E sid \in SessionIds, client_id \in ClientIds :
           CallRemoveParticipant(sid, client_id)

SpecMembers == InitStore /\ [][NextMembers]_vars

\* C12: in every reachable state the participant list of a session holds at
\* most one record per client identifier; add_participant for an identifier
\* that is in the list, connected or not, replaces its record.
C12_OneRecordPerClient ==
    /\ \A sid \in DOMAIN sessions :
           \A i, j \in 1..Len(sessions[sid].participants) :
               i # j => sessions[sid].participants[i].client_id
                            # sessions[sid].participants[j].client_id
    /\ (last.op = "add_participant" /\ last.was_member) =>
           /\ last.result = "ok"
           /\ Len(sessions[last.sid].participants)
                  = Len(last.before[last.sid].participants)
           /\ get_participant(sessions[last.sid], last.client_id).is_connected

C12_Witness ==
    /\ last.op = "add_participant"
    /\ last.was_member
    /\ ~get_participant(last.before[last.sid], last.client_id).is_connected
    /\ Len(sessions[last.sid].participants) > 1

\* the records of a list that are marked connected
Connected(ps) == SelectSeq(ps, LAMBDA p : p.is_connected)

\* C13: remove_participant never shrinks the participant list: it marks the
\* record of the given client disconnected and leaves every other record as
\* it was, it succeeds and changes no record when the client is absent or
\* already disconnected, and participant_count is the number of records
\* marked connected.
C13_RemoveMarksOnly ==
    /\ \A sid \in DOMAIN sessions :
           participant_count(sessions[sid]) = Len(Connected(sessions[sid].participants))
    /\ (last.op = "remove_participant" /\ Exists(last.before, last.sid)) =>
           LET b == last.before[last.sid].participants
               a == sessions[last.sid].participants
               p == get_participant(last.before[last.sid], last.client_id)
           IN /\ last.result = "ok"
              /\ Len(a) = Len(b)
              /\ \A i \in 1..Len(b) :
                     a[i] = IF b[i].client_id = last.client_id
                            THEN [b[i] EXCEPT !.is_connected = FALSE]
                            ELSE b[i]
              /\ (p = NoParticipant \/ ~p.is_connected) => a = b

C13_Witness ==
    /\ last.op = "remove_participant"
    /\ last.result = "ok"
    /\ Len(sessions[last.sid].participants) > 1
    /\ get_participant(last.before[last.sid], last.client_id) # NoParticipant
    /\ get_participant(last.before[last.sid], last.client_id).is_connected
    /\ ~get_participant(sessions[last.sid], last.client_id).is_connected

\* C14: add_participant for a client that is not a member of a session at
\* capacity fails with SessionFull and leaves the session as it was:
\* participants, count, code, language, history and updated_at.
C14_FullLeavesSessionAlone ==
    (/\ last.op = "add_participant"
     /\ Exists(last.before, last.sid)
     /\ ~last.was_member
     /\ participant_count(last.before[last.sid])
            >= last.before[last.sid].max_participants) =>
        /\ last.result = "SessionFull"
        /\ sessions[last.sid] = last.before[last.sid]

C14_Witness ==
    /\ last.op = "add_participant"
    /\ last.result = "SessionFull"
    /\ sessions[last.sid].updated_at < now

\* ------------------------------------------------------------------------
\* The code of a session driven by update_session_code calls; two calls
\* may read the same value from the clock
\* ------------------------------------------------------------------------
CallUpdateSessionCode(sid, code, language) ==
    LET r == update_session_code(sessions, sid, code, language, now)
    IN /\ sessions' = r.sessions
       /\ last' = [op |-> "update_session_code", sid |-> sid, code |-> code,
                   language |-> language, result |-> r.result, before |-> sessions]
       /\ UNCHANGED <<execution_counts, now, admitted, regVars, wsVars, clientVars>>

NextCode ==
    \/ Tick
    \/ \E sid \in SessionIds, cu \in CodeUpdates :
           CallUpdateSessionCode(sid, cu[1], cu[2])

SpecCode == InitStore /\ [][NextCode]_vars

\* C15: update_session_code(id, code, language) followed by get_session(id)
\* gives a session with exactly that code and language and an updated_at
\* strictly greater than before the call.
C15_UpdateRoundTrip ==
    (last.op = "update_session_code" /\ last.result = "ok") =>
        /\ sessions[last.sid].current_code = last.code
        /\ sessions[last.sid].current_language = last.language
        /\ sessions[last.sid].updated_at > last.before[last.sid].updated_at

\* ------------------------------------------------------------------------
\* Send failures during a broadcast
\* ------------------------------------------------------------------------
\* C16: when the send to one channel has failed during a broadcast, the
\* message has, once the broadcast is over, still been sent to every other
\* channel that was bound to the session and still is (with an open
\* transport), the excluded one apart.
C16_FailureDoesNotAbort ==
    (done.active /\ done.failed # {}) =>
        \A d \in done.start \ (done.failed \cup {done.exclude}) :
            (d \in DOMAIN connection_info /\ alive[d])
                => \E i \in 1..Len(sent[d]) : sent[d][i] = done.msg

\* C17: a channel whose send failed during a broadcast is unbound from the
\* registry and, when its handler has ended, its terminal cleanup has been
\* performed exactly once: user_left was broadcast for it once and no
\* participant record of the channel is still marked connected.
C17_FailedChannelIsCleanedUp ==
    \A c \in Chans :
        cleaned[c].pruned > 0 =>
            /\ c \notin DOMAIN connection_info
            /\ pc[c] = "closed" =>
                   /\ cleaned[c].unbound = 1
                   /\ cleaned[c].user_left = 1
                   /\ \A p \in Range(sessions[sess[c]].participants) :
                          p.connection_id = c => ~p.is_connected

\* ------------------------------------------------------------------------
\* The Sandbox call in flight
\* ------------------------------------------------------------------------
\* code_executor.execute is an ordinary call inside the coroutine of the
\* handler (no await, no executor thread): while it runs, the event loop
\* runs no other handler
EventLoopFree == \A d \in Chans : pc[d] # "executing"

\* lines 227-248: execute_code up to the call of code_executor.execute
SandboxCall(c) ==
    /\ EventLoopFree
    /\ IF check_rate_limit(execution_counts, sess[c], now).result
       THEN /\ Receiving(c)
            /\ execution_counts' =
                   check_rate_limit(execution_counts, sess[c], now).execution_counts
            /\ admitted' = [admitted EXCEPT ![sess[c]] = Append(@, now)]
            /\ pc' = [pc EXCEPT ![c] = "executing"]
            /\ last' = [op |-> "sandbox_call", chan |-> c, n |-> inbound']
            /\ UNCHANGED <<sessions, now, regVars, sess, ws_client_id, bc, alive, sent,
                           budget, cleaned, done, clientVars>>
       ELSE RecvExecute(c, "ok")

\* lines 248-295: code_executor.execute returns or raises
SandboxReturn(c, outcome) ==
    /\ pc[c] = "executing"
    /\ inbound' = inbound
    /\ LET res == ExecutionResult(outcome, c)
           ar == add_execution_result(sessions, sess[c], res, now)
           ev == [op |-> "execute_code", chan |-> c, n |-> inbound,
                  admitted |-> TRUE, outcome |-> outcome, executed |-> TRUE,
                  appended |-> outcome # "raises" /\ ar.result = "ok"]
       IN IF outcome = "raises" \/ ar.result # "ok"
          THEN IF alive[c]
               THEN /\ sessions' = sessions
                    /\ sent' = [sent EXCEPT ![c] =
                                   Append(@, ErrorMsg(c, inbound, "EXECUTION_FAILED"))]
                    /\ pc' = [pc EXCEPT ![c] = "recv"]
                    /\ last' = ev
                    /\ UNCHANGED <<connections, connection_info, bc, cleaned, done>>
               ELSE CleanupFrom(c, ws_client_id[c], sessions, sent)
          ELSE /\ sessions' = ar.sessions
               /\ last' = ev
               /\ BcastFrom(c,
                            NewBcast(connections, sess[c],
                                     Msg("execution_result", c, inbound, None, None,
                                         res.exit_code, None),
                                     None, "recv"),
                            connections, connection_info, bc, sent, cleaned)
    /\ UNCHANGED <<execution_counts, now, admitted, sess, ws_client_id, alive, budget,
                   clientVars>>

\* a step of another handler, taken when the event loop is free to run it
OtherCodeUpdate(c, code, language) == EventLoopFree /\ RecvCodeUpdate(c, code, language)
OtherConnect(c, sid) == EventLoopFree /\ Connect(c, sid)
OtherLeave(c) == EventLoopFree /\ RecvLeave(c)
OtherBcastStep(c) == EventLoopFree /\ BcastStep(c)

NextBlock ==
    \/ \E c \in EditChans : OtherConnect(c, "s1")
    \/ \E c \in EditChans : SandboxCall(c)
    \/ \E c \in EditChans, outcome \in SandboxOutcomes : SandboxReturn(c, outcome)
    \/ \E c \in EditChans, cu \in CodeUpdates : OtherCodeUpdate(c, cu[1], cu[2])
    \/ \E c \in EditChans : OtherLeave(c)
    \/ \E c \in EditChans : OtherBcastStep(c)

SpecBlock == InitWS /\ [][NextBlock]_vars

\* C18: while the Sandbox call of one connection is in flight, another
\* connection that is bound and has a message waiting can receive and
\* process it.
C18_OthersNotBlocked ==
    \A c, d \in EditChans :
        (pc[c] = "executing" /\ d # c /\ pc[d] = "recv" /\ inbound < budget) =>
            ENABLED (\E cu \in CodeUpdates : OtherCodeUpdate(d, cu[1], cu[2]))

\* ------------------------------------------------------------------------
\* Opening channels for known and unknown sessions, and messages of an
\* unknown type
\* ------------------------------------------------------------------------
NextOpen ==
    \/ \E c \in EditChans, sid \in SessionIds : Connect(c, sid)
    \/ \E c \in EditChans : TransportClose(c)
    \/ \E c \in EditChans : \E u \in JoinIds(c) : RecvJoin(c, u)
    \/ \E c \in EditChans : JoinBroadcast(c)
    \/ \E c \in EditChans : RecvInvalid(c)
    \/ \E c \in EditChans : RecvLeave(c)
    \/ \E c \in EditChans : RecvDisconnect(c)
    \/ \E c \in EditChans : BcastStep(c)

SpecOpen == InitWS /\ [][NextOpen]_vars

\* C19: a channel opened for a session identifier that is not in the
\* Session Store has received exactly one message, the SESSION_NOT_FOUND
\* error, and is closed; it was never bound in the registry, it joined no
\* participant, ran no message loop and caused no user_left broadcast.
C19_UnknownSessionOnlyError ==
    \A c \in Chans :
        (sess[c] # None /\ ~Exists(sessions, sess[c])) =>
            /\ pc[c] = "closed"
            /\ Len(sent[c]) = 1
            /\ sent[c][1].type = "error"
            /\ sent[c][1].code = "SESSION_NOT_FOUND"
            /\ cleaned[c] = NoCleanup
            /\ c \notin DOMAIN connection_info
            /\ \A sid \in DOMAIN connections : c \notin Range(connections[sid])
            /\ ws_client_id[c] = None
            /\ \A sid \in DOMAIN sessions :
                   \A p \in Range(sessions[sid].participants) : p.connection_id # c
            /\ \A d \in Chans : \A i \in 1..Len(sent[d]) : sent[d][i].src = c => d = c

C19_Witness ==
    \E c, d \in Chans :
        /\ sess[c] = "s2" /\ pc[c] = "closed"
        /\ sess[d] = "s1" /\ pc[d] = "recv" /\ ws_client_id[d] # None

\* C20: a message of an unknown type read from a channel whose transport is
\* open is answered with an error sent to that channel only; the Session
\* Store and the Connection Registry stay as they are and the connection
\* stays bound and reads on.
C20_UnknownTypeOnlyReplies ==
    [][\A c \in Chans :
          (last'.op = "invalid" /\ last'.chan = c /\ inbound' = inbound + 1) =>
              /\ sent' = [sent EXCEPT ![c] =
                             Append(@, ErrorMsg(c, inbound', "INVALID_MESSAGE"))]
              /\ sessions' = sessions
              /\ execution_counts' = execution_counts
              /\ connections' = connections
              /\ connection_info' = connection_info
              /\ c \in DOMAIN connection_info'
              /\ pc'[c] = "recv"
              /\ bc' = bc
      ]_vars

C20_Witness ==
    /\ last.op = "invalid"
    /\ pc[last.chan] = "recv"
    /\ last.chan \in DOMAIN connection_info
    /\ sent[last.chan][Len(sent[last.chan])].code = "INVALID_MESSAGE"
    /\ \E d \in Chans : d # last.chan /\ pc[d] = "recv"

\* ------------------------------------------------------------------------
\* Joining a session
\* ------------------------------------------------------------------------
\* C21: on join_session the sender receives a session_state message with
\* the session's current code and language and with a participant count and
\* list that include the joiner; when the user_joined broadcast is over, the
\* message has been sent to every other channel that was bound to the
\* session and still is (with an open transport), and never to the sender.
C21_JoinRepliesStateAndAnnounces ==
    /\ (last.op = "join_session" /\ last.result = "ok") =>
           LET c == last.chan
               s == sessions[sess[c]]
           IN /\ \E i \in 1..Len(sent[c]) :
                     /\ sent[c][i].type = "session_state"
                     /\ sent[c][i].n = last.n
                     /\ sent[c][i].code = s.current_code
                     /\ sent[c][i].language = s.current_language
                     /\ sent[c][i].count = participant_count(s)
                     /\ sent[c][i].count >= 1
              /\ ws_client_id[c] \in last.listed
    /\ (done.active /\ done.msg.type = "user_joined") =>
           /\ done.exclude = done.msg.src
           /\ \A d \in done.start \ {done.exclude} :
                  (d \in DOMAIN connection_info /\ alive[d])
                      => \E i \in 1..Len(sent[d]) : sent[d][i] = done.msg
           /\ \A i \in 1..Len(sent[done.exclude]) : sent[done.exclude][i] # done.msg

\* ------------------------------------------------------------------------
\* Two sessions side by side
\* ------------------------------------------------------------------------
\* the state after start-up and two create_session("python") calls
InitIso ==
    /\ sessions = [sid \in SessionIds |-> NewSession("python", MaxParticipants, 0)]
    /\ execution_counts = [sid \in SessionIds |-> <<>>]
    /\ now = 0
    /\ connections = EmptyDict
    /\ connection_info = EmptyDict
    /\ pc = [c \in Chans |-> "idle"]
    /\ sess = [c \in Chans |-> None]
    /\ ws_client_id = [c \in Chans |-> None]
    /\ bc = [c \in Chans |-> NoBcast]
    /\ alive = [c \in Chans |-> TRUE]
    /\ sent = [c \in Chans |-> <<>>]
    /\ inbound = 0
    /\ budget = MaxInbound
    /\ client = [c \in Chans |-> NewClient]
    /\ to_server = [c \in Chans |-> <<>>]
    /\ cleaned = [c \in Chans |-> NoCleanup]
    /\ done = NoBcast
    /\ admitted = [sid \in SessionIds |-> <<>>]
    /\ last = NoCall

\* the session each channel is opened for
Room(c) == IF c = "c3" THEN "s2" ELSE "s1"

NextIso ==
    \/ \E c \in Chans : Connect(c, Room(c))
    \/ \E c \in Chans : \E u \in JoinIds(c) : RecvJoin(c, u)
    \/ \E c \in Chans : JoinBroadcast(c)
    \/ \E c \in Chans : RecvCodeUpdate(c, "X", "python")
    \/ \E c \in Chans : RecvLanguageChange(c, "javascript")
    \/ \E c \in Chans : RecvExecute(c, "ok")
    \/ \E c \in Chans : RecvLeave(c)
    \/ \E c \in Chans : BcastStep(c)

SpecIso == InitIso /\ [][NextIso]_vars

\* C22: a message read from a channel of session S1 leaves every other
\* session S2 as it was (code, language, participants, history, rate-limit
\* window) and sends nothing to a channel bound to S2; and whatever a
\* channel is sent, in whichever step, stems from a message of a channel of
\* its own session.
C22_SessionsIsolated ==
    [][/\ \A c \in Chans :
            (inbound' = inbound + 1 /\ last'.chan = c) =>
                \A s2 \in SessionIds \ {sess[c]} :
                    /\ sessions'[s2] = sessions[s2]
                    /\ execution_counts'[s2] = execution_counts[s2]
                    /\ \A d \in Chans :
                           (d \in DOMAIN connection_info /\ connection_info[d][1] = s2)
                               => sent'[d] = sent[d]
       /\ \A d \in Chans :
            \A i \in (Len(sent[d]) + 1)..Len(sent'[d]) :
                sess'[sent'[d][i].src] = sess'[d]
      ]_vars

C22_Witness ==
    /\ last.op = "code_update"
    /\ sessions[sess[last.chan]].current_code = last.code
    /\ \E e \in Chans :
           /\ e # last.chan /\ sess[e] = sess[last.chan]
           /\ \E i \in 1..Len(sent[e]) : sent[e][i].type = "code_update"
    /\ \E d \in Chans :
           /\ d \in DOMAIN connection_info
           /\ sess[d] # sess[last.chan]
           /\ sent[d] # <<>>
           /\ sessions[sess[d]].current_code # last.code

\* ------------------------------------------------------------------------
\* The status of a session under every operation of the Session Store
\* ------------------------------------------------------------------------
\* number of results appended to one history in one run
MaxAppends == 2

CallEndSession(sid) ==
    LET r == end_session(sessions, sid, now)
    IN /\ sessions' = r.sessions
       /\ last' = [op |-> "end_session", sid |-> sid, result |-> r.result,
                   was |-> IF Exists(sessions, sid) THEN sessions[sid].status ELSE None]
       /\ UNCHANGED <<execution_counts, now, admitted, regVars, wsVars, clientVars>>

\* websocket.py, language_change: the handler's write to its Session object
CallLanguageChange(sid, language) ==
    /\ Exists(sessions, sid)
    /\ sessions' = [sessions EXCEPT ![sid].current_language = language,
                                    ![sid].updated_at = now]
    /\ last' = [op |-> "language_change", sid |-> sid, language |-> language]
    /\ UNCHANGED <<execution_counts, now, admitted, regVars, wsVars, clientVars>>

\* add_execution_result for a history that is still short
CallAppendResult(sid) ==
    /\ Exists(sessions, sid) => Len(sessions[sid].execution_history) < MaxAppends
    /\ CallAddExecutionResult(sid)

NextStatus ==
    \/ Advance
    \/ \E sid \in SessionIds : CallEndSession(sid)
    \/ \E sid \in SessionIds : CallUpdateSessionCode(sid, "X", "python")
    \/ \E sid \in SessionIds : CallLanguageChange(sid, "javascript")
    \/ \E sid \in SessionIds : CallAddParticipant(sid, "u1", "c1")
    \/ \E sid \in SessionIds : CallRemoveParticipant(sid, "u1")
    \/ \E sid \in SessionIds : CallAppendResult(sid)

SpecStatus == InitStore /\ [][NextStatus]_vars

\* C23: the status of a session never goes from completed to anything else,
\* whichever operation is applied (update code, language change, add or
\* remove participant, append result, end); end_session leaves the session
\* completed, also when it was completed already.
C23_StatusOneWay ==
    [][/\ \A sid \in DOMAIN sessions :
            sessions[sid].status = "completed" =>
                (sid \in DOMAIN sessions' /\ sessions'[sid].status = "completed")
       /\ \A sid \in DOMAIN sessions :
            (last'.op = "end_session" /\ last'.sid = sid /\ last' # last) =>
                sessions'[sid].status = "completed"
      ]_vars

C23_Witness ==
    /\ last.op = "end_session"
    /\ last.was = "completed"
    /\ sessions[last.sid].status = "completed"
    /\ sessions[last.sid].current_code = "X"
    /\ sessions[last.sid].current_language = "javascript"
    /\ sessions[last.sid].execution_history # <<>>
    /\ sessions[last.sid].participants # <<>>
    /\ ~sessions[last.sid].participants[1].is_connected

\* ------------------------------------------------------------------------
\* The life of sessions: create_session (with its sweep), end_session and
\* delete_session while time passes
\* ------------------------------------------------------------------------
\* the instants at which calls are made (seconds)
LifeInstants == {0, MaxAge, MaxAge + 1}

Age ==
    /\ \E t \in LifeInstants : t > now /\ now' = t
    /\ UNCHANGED <<sessions, execution_counts, admitted, regVars, wsVars, clientVars, last>>

CallCreateSession(draws, initial_language) ==
    /\ \E i \in 1..Len(draws) : draws[i] \notin DOMAIN sessions
    /\ LET r == create_session(sessions, execution_counts, draws, initial_language,
                               MaxParticipants, now)
       IN /\ sessions' = r.sessions
          /\ execution_counts' = r.execution_counts
          /\ last' = [op |-> "create_session", sid |-> r.session_id,
                      language |-> initial_language,
                      collided |-> draws[1] \in DOMAIN sessions,
                      size |-> Cardinality(DOMAIN r.stored),
                      swept |-> DOMAIN r.stored \ DOMAIN r.sessions]
    /\ UNCHANGED <<now, admitted, regVars, wsVars, clientVars>>

CallDeleteSession(sid) ==
    LET r == delete_session(sessions, execution_counts, sid)
    IN /\ sessions' = r.sessions
       /\ execution_counts' = r.execution_counts
       /\ last' = [op |-> "delete_session", sid |-> sid]
       /\ UNCHANGED <<now, admitted, regVars, wsVars, clientVars>>

NextLife ==
    \/ Age
    \/ \E draws \in [1..MaxDraws -> StoreIds] : CallCreateSession(draws, "javascript")
    \/ \E sid \in StoreIds : CallEndSession(sid)
    \/ \E sid \in StoreIds : CallDeleteSession(sid)

SpecLife == InitStore /\ [][NextLife]_vars

\* C24: the sweep that runs at the end of create_session removes a session
\* only if its status is not active and its updated_at is older than the
\* maximum age, and only when the store has reached the size threshold; a
\* session that is active is never removed by it, however old it is.
C24_SweepSparesActive ==
    [][(last'.op = "create_session" /\ last' # last) =>
          \A sid \in DOMAIN sessions :
              /\ sid \notin DOMAIN sessions' =>
                     /\ sessions[sid].status # "active"
                     /\ sessions[sid].updated_at < now - MaxAge
                     /\ last'.size >= CleanupThreshold
              /\ sessions[sid].status = "active" => sid \in DOMAIN sessions'
      ]_vars

C24_Witness ==
    /\ last.op = "create_session"
    /\ last.swept # {}
    /\ \E sid \in DOMAIN sessions \ {last.sid} :
           /\ sessions[sid].status = "active"
           /\ sessions[sid].updated_at < now - MaxAge
    /\ \E sid \in DOMAIN sessions :
           sessions[sid].status = "completed"

\* C25: create_session stores the new session under an identifier that was
\* not a key of the store, also when the first random candidate collides
\* with a key: the sessions that were in the store and still are, are the
\* same objects as before (none is overwritten), and the store has grown by
\* the new session less the sessions swept.
C25_CreateNeverOverwrites ==
    [][(last'.op = "create_session" /\ last' # last) =>
          /\ last'.sid \notin DOMAIN sessions
          /\ last'.sid \in DOMAIN sessions'
          /\ sessions'[last'.sid] = NewSession(last'.language, MaxParticipants, now)
          /\ \A sid \in DOMAIN sessions \cap DOMAIN sessions' :
                 sessions'[sid] = sessions[sid]
          /\ Cardinality(DOMAIN sessions')
                 = Cardinality(DOMAIN sessions) + 1 - Cardinality(last'.swept)
      ]_vars

C25_Witness ==
    /\ last.op = "create_session"
    /\ last.collided
    /\ Cardinality(DOMAIN sessions) >= 3
    /\ \E sid \in DOMAIN sessions : sessions[sid].status = "completed"

\* ------------------------------------------------------------------------
\* Sessions created with any language the caller names
\* ------------------------------------------------------------------------
\* initial_language is a str that nothing validates (the request schema
\* only lower-cases it)
CreateLangs == {"javascript", "python", "java", "cpp", "ruby"}

NextCreate ==
    \/ \E draws \in [1..MaxDraws -> StoreIds], initial_language \in CreateLangs :
           CallCreateSession(draws, initial_language)
    \/ \E sid \in StoreIds : CallDeleteSession(sid)

SpecCreate == InitStore /\ [][NextCreate]_vars

\* C26: a session created with initial language L has, right after the
\* call, current_language = L and as current_code the default-code template
\* that belongs to L, for every L that create_session accepts.
C26_CreatedWithTemplateOfLanguage ==
    last.op = "create_session" =>
        /\ sessions[last.sid].current_language = last.language
        /\ last.language \in DOMAIN templates
        /\ sessions[last.sid].current_code = templates[last.language]

\* ------------------------------------------------------------------------
\* The windows of two sessions
\* ------------------------------------------------------------------------
\* a check_rate_limit call, without the record of all earlier admissions
Admit(sid) ==
    LET r == check_rate_limit(execution_counts, sid, now)
    IN /\ execution_counts' = r.execution_counts
       /\ last' = [op |-> "check_rate_limit", sid |-> sid, t |-> now,
                   result |-> r.result, size |-> Len(r.execution_counts[sid])]
       /\ UNCHANGED <<sessions, now, admitted, regVars, wsVars, clientVars>>

NextWindows ==
    \/ Tick
    \/ \E sid \in SessionIds : Admit(sid)

SpecWindows == InitStore /\ [][NextWindows]_vars

\* C27: a check_rate_limit call for session A leaves the recorded window of
\* every other session B as it was, and with it the answer of any later
\* check_rate_limit call for B, at whatever time it is made.
C27_WindowsIndependent ==
    [][\A a \in SessionIds :
          (last'.op = "check_rate_limit" /\ last'.sid = a /\ last' # last) =>
              \A b \in SessionIds \ {a} :
                  /\ (b \in DOMAIN execution_counts) = (b \in DOMAIN execution_counts')
                  /\ b \in DOMAIN execution_counts =>
                         execution_counts'[b] = execution_counts[b]
                  /\ \A t \in Instants :
                         t >= now =>
                             check_rate_limit(execution_counts', b, t).result
                                 = check_rate_limit(execution_counts, b, t).result
      ]_vars

C27_Witness ==
    /\ last.op = "check_rate_limit"
    /\ last.result
    /\ \E b \in SessionIds \ {last.sid} :
           /\ b \in DOMAIN execution_counts
           /\ Len(execution_counts[b]) = rate_limit_executions_per_minute
           /\ ~check_rate_limit(execution_counts, b, now).result

\* ------------------------------------------------------------------------
\* services/code_executor.py: CodeExecutor
\* ------------------------------------------------------------------------
\* CodeExecutor.LANGUAGE_CONFIG: the languages with an execution
\* configuration, and whether they are compiled first
LANGUAGE_CONFIG ==
    [python |-> [compile |-> FALSE], javascript |-> [compile |-> FALSE],
     java |-> [compile |-> TRUE], cpp |-> [compile |-> TRUE]]

\* the languages execute is called with
ExecLangs == {"python", "javascript", "java", "cpp", "cobol"}

\* what the operating system does during one call: creating the temporary
\* directory, writing the source file, the compiler run, spawning the
\* process, the run itself and the wall time it took (ms)
Environments ==
    [tmpdir : {"ok", "fails"}, write : {"ok", "fails"},
     compile : {"ok", "errors", "timeout", "raises"},
     spawn : {"ok", "fails"}, run : {"exit0", "exit1", "timeout"},
     elapsed : {10, 7000}]

\* the time_limit_ms arguments
TimeLimits == {1000, 5000}

\* a returned tuple (stdout, stderr, exit_code, duration_ms, error_message);
\* spawned and killed tell whether the program was started and killed
Returned(stdout, stderr, exit_code, duration_ms, error, spawned, killed) ==
    [raised |-> FALSE, stdout |-> stdout, stderr |-> stderr, exit_code |-> exit_code,
     duration_ms |-> duration_ms, error |-> error, spawned |-> spawned,
     killed |-> killed]

\* an exception that leaves execute
Raised ==
    [raised |-> TRUE, stdout |-> None, stderr |-> None, exit_code |-> None,
     duration_ms |-> None, error |-> None, spawned |-> FALSE, killed |-> FALSE]

\* CodeExecutor._mock_execution
_mock_execution(language) ==
    IF language = "javascript"
    THEN Returned("mock_javascript", "", 0, 10, None, FALSE, FALSE)
    ELSE Returned("mock_disabled", "", 0, 0, None, FALSE, FALSE)

\* CodeExecutor._compile: None, or the error text
_compile(env) ==
    CASE env.compile = "ok" -> None
      [] env.compile = "errors" -> "compiler_stderr"
      [] env.compile = "timeout" -> "Compilation timed out"
      [] env.compile = "raises" -> "Compilation error"

_run_code_reports_elapsed(env, time_limit_ms) ==
    IF env.spawn = "fails"
    THEN Returned("", "spawn_error", 1, env.elapsed, "Runtime error", FALSE, FALSE)
    ELSE IF env.run = "timeout"
    THEN Returned("", "", -1, env.elapsed, "Execution timed out", TRUE, TRUE)
    ELSE Returned("out", "err", IF env.run = "exit0" THEN 0 ELSE 1, env.elapsed, None,
                  TRUE, FALSE)

\* CodeExecutor._run_code
_run_code(env, time_limit_ms) ==
    IF env.spawn = "fails"
    THEN Returned("", "spawn_error", 1, env.elapsed, "Runtime error", FALSE, FALSE)
    ELSE IF env.run = "timeout"
    THEN Returned("", "", -1, time_limit_ms, "Execution timed out", TRUE, TRUE)
    ELSE Returned("out", "err", IF env.run = "exit0" THEN 0 ELSE 1, env.elapsed, None,
                  TRUE, FALSE)

\* CodeExecutor.execute
execute(enable_server_execution, language, time_limit_ms, env) ==
    IF ~enable_server_execution THEN _mock_execution(language)
    ELSE IF language \notin DOMAIN LANGUAGE_CONFIG
    THEN Returned("", "", 1, 0, "Language is not supported for execution", FALSE, FALSE)
    ELSE IF env.tmpdir = "fails" \/ env.write = "fails"
    THEN \* raised before the try block is entered
         Raised
    ELSE IF LANGUAGE_CONFIG[language].compile /\ _compile(env) # None
    THEN Returned("", _compile(env), 1, 0, "Compilation failed", FALSE, FALSE)
    ELSE _run_code(env, time_limit_ms)

\* success as the callers derive it from the tuple
Success(r) == ~r.raised /\ r.exit_code = 0 /\ r.error = None

CallExecute(enable_server_execution, language, time_limit_ms, env) ==
    /\ (env.run = "timeout") = (env.elapsed > time_limit_ms)
    /\ last' = [op |-> "execute", enabled |-> enable_server_execution,
                language |-> language, time_limit_ms |-> time_limit_ms, env |-> env,
                r |-> execute(enable_server_execution, language, time_limit_ms, env)]
    /\ UNCHANGED <<storeVars, regVars, wsVars, clientVars>>

NextSandbox ==
    \E enable_server_execution \in BOOLEAN, language \in ExecLangs,
       time_limit_ms \in TimeLimits, env \in Environments :
        CallExecute(enable_server_execution, language, time_limit_ms, env)

SpecSandbox == InitStore /\ [][NextSandbox]_vars

\* the call got as far as running the program
Ran(call) ==
    /\ call.enabled
    /\ call.language \in DOMAIN LANGUAGE_CONFIG
    /\ call.env.tmpdir = "ok" /\ call.env.write = "ok"
    /\ LANGUAGE_CONFIG[call.language].compile => call.env.compile = "ok"
    /\ call.env.spawn = "ok"

\* C28: execute never raises to its caller; a failure to create or write
\* the temporary source file, to compile or to spawn the process comes back
\* as a tuple with a non-zero exit code and an error message.
C28_ExecuteNeverRaises ==
    last.op = "execute" =>
        /\ ~last.r.raised
        /\ (/\ last.enabled
            /\ last.language \in DOMAIN LANGUAGE_CONFIG
            /\ ~Ran(last)) =>
               (last.r.exit_code # 0 /\ last.r.error # None)

\* C29: when the spawned program does not finish within time_limit_ms it is
\* killed and execute returns exit code -1, duration_ms equal to
\* time_limit_ms (not the wall time that elapsed), empty stdout and stderr
\* and the "timed out" error; success derived from it is false.
C29_TimeoutResult ==
    (last.op = "execute" /\ Ran(last) /\ last.env.run = "timeout") =>
        /\ last.r = Returned("", "", -1, last.time_limit_ms, "Execution timed out",
                             TRUE, TRUE)
        /\ last.r.duration_ms # last.env.elapsed
        /\ ~Success(last.r)

C29_Witness ==
    /\ last.op = "execute"
    /\ Ran(last)
    /\ last.env.run = "timeout"
    /\ last.env.elapsed > last.time_limit_ms
    /\ last.r.killed
    /\ last.r.exit_code = -1

\* C30: execute called with a language that has no execution configuration
\* returns a failure (exit code 1, error set, success false) and spawns no
\* process, whether server execution is enabled or not.
C30_UnsupportedLanguageFails ==
    (last.op = "execute" /\ last.language \notin DOMAIN LANGUAGE_CONFIG) =>
        /\ ~last.r.raised
        /\ last.r.exit_code = 1
        /\ last.r.error # None
        /\ ~Success(last.r)
        /\ ~last.r.spawned

\* ------------------------------------------------------------------------
\* Broadcasts while channels are bound and unbound
\* ------------------------------------------------------------------------
\* C31: when a broadcast is over, every channel that was bound to the
\* session when it started, is not the excluded one and is still bound with
\* an open transport has been sent the message exactly once, whatever
\* channels were bound to or unbound from the session in the meantime.
C31_ExactlyOnceToStayingChannels ==
    done.active =>
        \A d \in done.start \ {done.exclude} :
            (d \in DOMAIN connection_info /\ connection_info[d][1] = done.sid
             /\ alive[d] /\ d \notin done.failed)
                => Cardinality({i \in 1..Len(sent[d]) : sent[d][i] = done.msg}) = 1

\* ------------------------------------------------------------------------
\* Channels bound to a session that leaves the Session Store: the session
\* is ended over HTTP, stays idle beyond the age limit and is removed by the
\* sweep at the end of a later create_session
\* ------------------------------------------------------------------------
\* create_session is called between handler steps (a handler suspended
\* between its session_state reply and its user_joined broadcast resumes
\* first); _generate_session_id draws s2, then s3
NextGone ==
    \/ \E c \in EditChans : Connect(c, "s1")
    \/ \E c \in EditChans : \E u \in JoinIds(c) : RecvJoin(c, u)
    \/ \E c \in EditChans : JoinBroadcast(c)
    \/ \E c \in EditChans, cu \in CodeUpdates : RecvCodeUpdate(c, cu[1], cu[2])
    \/ \E c \in EditChans : RecvExecute(c, "ok")
    \/ \E c \in EditChans : RecvInvalid(c)
    \/ \E c \in EditChans : RecvLeave(c)
    \/ \E c \in EditChans : BcastStep(c)
    \/ Age
    \/ CallEndSession("s1")
    \/ /\ \A c \in EditChans : pc[c] # "joined"
       /\ CallCreateSession([i \in 1..MaxDraws |-> IF i = 1 THEN "s2" ELSE "s3"],
                            "javascript")

SpecGone == InitWS /\ [][NextGone]_vars

\* C32: a message that fails to process (invalid or unknown message, a join
\* rejected because the session is full or gone, code_update or execute_code
\* on a session that is no longer in the store), read from a channel whose
\* transport is open, is answered with one error message to the sender and
\* leaves the channel bound and its handler reading.
C32_FailedMessageKeepsLoop ==
    [][\A c \in EditChans :
          (/\ alive[c]
           /\ \/ RecvInvalid(c)
              \/ \E u \in JoinIds(c) :
                     /\ add_participant(sessions, sess[c], u, c, now).result # "ok"
                     /\ RecvJoin(c, u)
              \/ \E cu \in CodeUpdates :
                     /\ ~Exists(sessions, sess[c])
                     /\ RecvCodeUpdate(c, cu[1], cu[2])
              \/ /\ ~Exists(sessions, sess[c])
                 /\ RecvExecute(c, "ok"))
          => /\ pc'[c] = "recv"
             /\ c \in DOMAIN connection_info'
             /\ Len(sent'[c]) = Len(sent[c]) + 1
             /\ sent'[c][Len(sent'[c])].type = "error"
      ]_vars

\* C40: the terminal cleanup of a channel whose session has left the store
\* while the channel was bound completes without raising: the channel is
\* unbound from the registry and no exception leaves the handler.
C40_CleanupSurvivesMissingSession ==
    (last.op = "cleanup" /\ ~Exists(sessions, sess[last.chan])) =>
        /\ last.chan \notin DOMAIN connection_info
        /\ ~last.raised

\* ------------------------------------------------------------------------
\* The sender's transport closes while its Sandbox call is in flight
\* ------------------------------------------------------------------------
\* the peer closes the transport of the channel whose handler is inside
\* code_executor.execute (the event loop is not needed for that)
NextFlight ==
    \/ \E c \in Chans : OtherConnect(c, "s1")
    \/ \E c \in Chans : SandboxCall(c)
    \/ \E c \in Chans : pc[c] = "executing" /\ TransportClose(c)
    \/ \E c \in Chans, outcome \in SandboxOutcomes : SandboxReturn(c, outcome)
    \/ \E c \in Chans : OtherLeave(c)
    \/ \E c \in Chans : EventLoopFree /\ RecvDisconnect(c)
    \/ \E c \in Chans : OtherBcastStep(c)

SpecFlight == InitWS /\ [][NextFlight]_vars

\* C33: when the transport of the channel that sent execute_code closed
\* while the Sandbox call was in flight and the call returned, the result is
\* in the session's execution history and, once the broadcast is over,
\* execution_result has been sent to every channel that was bound to the
\* session when the broadcast started and still is, with an open transport.
C33_ResultSurvivesSenderClose ==
    (done.active /\ done.msg.type = "execution_result" /\ ~alive[done.msg.src]) =>
        /\ \E i \in 1..Len(sessions[done.sid].execution_history) :
               sessions[done.sid].execution_history[i].executed_by = done.msg.src
        /\ \A d \in done.start :
               (d \in DOMAIN connection_info /\ alive[d])
                   => \E i \in 1..Len(sent[d]) : sent[d][i] = done.msg

\* ------------------------------------------------------------------------
\* update_session_code and add_participant calls of different handlers on
\* one store.  Neither method awaits, and every caller is a coroutine of the
\* one event loop: the calls of concurrent handlers run one after the
\* other, in any order.
\* ------------------------------------------------------------------------
NextPair ==
    \/ Advance
    \/ \E sid \in SessionIds, cu \in CodeUpdates :
           CallUpdateSessionCode(sid, cu[1], cu[2])
    \/ \E sid \in SessionIds, client_id \in ClientIds, connection_id \in EditChans :
           CallAddParticipant(sid, client_id, connection_id)

SpecPair == InitStore /\ [][NextPair]_vars

\* C34: in whatever order update_session_code and add_participant calls on
\* one session are made, no call loses what another one wrote: after an
\* update the session holds the new code and language and the participant
\* list the earlier calls left; after an add the list holds the new
\* participant, connected, and every record of the other clients, and the
\* code and language the earlier calls left.
C34_NoLostUpdate ==
    /\ (last.op = "update_session_code" /\ last.result = "ok") =>
           /\ sessions[last.sid].current_code = last.code
           /\ sessions[last.sid].current_language = last.language
           /\ sessions[last.sid].participants = last.before[last.sid].participants
    /\ (last.op = "add_participant" /\ last.result = "ok") =>
           /\ sessions[last.sid].current_code = last.before[last.sid].current_code
           /\ sessions[last.sid].current_language =
                  last.before[last.sid].current_language
           /\ get_participant(sessions[last.sid], last.client_id) # NoParticipant
           /\ get_participant(sessions[last.sid], last.client_id).is_connected
           /\ \A q \in Range(last.before[last.sid].participants) :
                  q.client_id # last.client_id
                      => q \in Range(sessions[last.sid].participants)

\* an update made after two clients were added to a session whose code had
\* been updated before
C34_Witness ==
    /\ last.op = "update_session_code"
    /\ last.result = "ok"
    /\ last.before[last.sid].current_code # last.code
    /\ last.before[last.sid].current_code # "tpl_python"
    /\ Cardinality({q.client_id : q \in Range(sessions[last.sid].participants)}) = 2
    /\ sessions[last.sid].current_code = last.code

\* C35: a check_rate_limit call that returns false records nothing: the
\* timestamps recorded for the session after the call are those recorded
\* before it that are not older than 60 seconds, in the same order, and a
\* later call for the session, at whatever time it is made, is answered as
\* it would have been had the denied call not been made.
C35_DenialRecordsNothing ==
    [][\A sid \in SessionIds :
          (last'.op = "check_rate_limit" /\ last'.sid = sid /\ last' # last
               /\ ~last'.result) =>
              /\ execution_counts'[sid] =
                     NewerThan(IF sid \in DOMAIN execution_counts
                               THEN execution_counts[sid] ELSE <<>>,
                               now - RateWindow - 1)
              /\ \A t \in Instants :
                     t >= now =>
                         check_rate_limit(execution_counts', sid, t).result
                             = check_rate_limit(execution_counts, sid, t).result
      ]_vars

\* a call was denied at an instant after which the session is admitted again
C35_Witness ==
    /\ last.op = "check_rate_limit"
    /\ ~last.result
    /\ last.t = now
    /\ Len(execution_counts[last.sid]) = rate_limit_executions_per_minute
    /\ \E t \in Instants :
           /\ t > now
           /\ check_rate_limit(execution_counts, last.sid, t).result

\* ------------------------------------------------------------------------
\* One window per session for both ways of executing: execute_code messages
\* and HTTP execute requests while time passes
\* ------------------------------------------------------------------------
NextShared ==
    \/ Tick
    \/ \E c \in EditChans : Connect(c, "s1")
    \/ \E c \in EditChans : RecvExecute(c, "ok")
    \/ \E sid \in SessionIds : HttpExecute(sid, "ok")
    \/ \E c \in EditChans : BcastStep(c)

SpecShared == InitWS /\ [][NextShared]_vars

\* C36: for every session and every instant t, the executions admitted for
\* the session in the 60 seconds ending at t, over the channels and over
\* HTTP together, are at most the per-minute ceiling.
C36_AtMostCeilingPerMinute ==
    \A sid \in SessionIds :
        \A t \in Instants :
            Cardinality({i \in 1..Len(admitted[sid]) :
                             /\ admitted[sid][i] <= t
                             /\ admitted[sid][i] >= t - RateWindow})
                <= rate_limit_executions_per_minute

\* C37: in every state reached by add_participant and remove_participant
\* calls, in any order, the number of connected participants of a session
\* is at most its max_participants, also after a client that was marked
\* disconnected has joined again.
C37_CountNeverAboveCapacity ==
    \A sid \in DOMAIN sessions :
        participant_count(sessions[sid]) <= sessions[sid].max_participants

\* C38: every user_left message that has been broadcast in a session names
\* a participant of that session that joined through the channel that
\* closed, and is broadcast only for a channel whose handler had received a
\* join_session message.
C38_UserLeftNamesJoinedClient ==
    (done.active /\ done.msg.type = "user_left") =>
        /\ ws_client_id[done.msg.src] # None
        /\ \E p \in Range(sessions[done.sid].participants) :
               /\ p.client_id = done.msg.client_id
               /\ p.connection_id = done.msg.src

\* ------------------------------------------------------------------------
\* The registry under connect, disconnect, broadcasts with failing sends
\* and close_session_connections
\* ------------------------------------------------------------------------
\* close_session_connections is called by a task of its own; its position
\* and its locals are kept in the slot of a channel that is never opened
Closer == "c3"

\* the locals of a close_session_connections call that is about to start
NewClose(conns, sid) ==
    [active |-> TRUE, sid |-> sid,
     msg |-> Msg("session_ended", Closer, 0, None, None, -1, None),
     exclude |-> None, i |-> 1, disconnected |-> <<>>, stale |-> FALSE,
     cont |-> "idle", start |-> Range(conns[sid]), connection |-> None]

\* ConnectionManager.close_session_connections from the await of close() (or
\* from the call) to the next await of send_json, or to its return.  The
\* loop iterates the registry's own list; a send_json that raises is
\* swallowed and the loop goes on.  `del self._connections[session_id]`
\* raises KeyError when the key has been deleted during the loop.  Loops of
\* broadcasts still iterating the deleted list reach no channel that is
\* bound, so they are ended here.
CloseFrom(k) ==
    LET L == IF k.stale \/ k.sid \notin DOMAIN connections
             THEN <<>> ELSE connections[k.sid]
    IN IF k.i > Len(L)
       THEN /\ IF k.sid \in DOMAIN connections
               THEN /\ connections' = DictDel(connections, k.sid)
                    /\ connection_info' =
                           [x \in {y \in DOMAIN connection_info :
                                       connection_info[y][1] # k.sid}
                               |-> connection_info[x]]
                    /\ bc' = [MarkStale(bc, {k.sid}) EXCEPT ![Closer] = NoBcast]
               ELSE /\ UNCHANGED <<connections, connection_info>>
                    /\ bc' = [bc EXCEPT ![Closer] = NoBcast]
            /\ sent' = sent
            /\ pc' = [pc EXCEPT ![Closer] = "idle"]
            /\ last' = [op |-> "close_session_connections", sid |-> k.sid,
                        found |-> TRUE, raised |-> k.sid \notin DOMAIN connections]
       ELSE LET t == L[k.i]
            IN /\ UNCHANGED <<connections, connection_info>>
               /\ bc' = [bc EXCEPT ![Closer] =
                            [k EXCEPT !.i = @ + 1, !.connection = t]]
               /\ sent' = IF alive[t] THEN [sent EXCEPT ![t] = Append(@, k.msg)]
                          ELSE sent
               /\ pc' = [pc EXCEPT ![Closer] =
                            IF alive[t] THEN "close_close" ELSE "close_send"]
               /\ last' = [op |-> "close_send", sid |-> k.sid, chan |-> t]

\* lines 203-214: the call, up to its first await
CloseStart(sid) ==
    /\ pc[Closer] = "idle"
    /\ IF sid \notin DOMAIN connections
       THEN /\ last' = [op |-> "close_session_connections", sid |-> sid,
                        found |-> FALSE, raised |-> FALSE]
            /\ UNCHANGED <<connections, connection_info, bc, sent, pc>>
       ELSE CloseFrom(NewClose(connections, sid))
    /\ UNCHANGED <<storeVars, sess, ws_client_id, alive, inbound, budget, cleaned,
                   done, clientVars>>

\* the loop resumes after `await connection.send_json(close_message)` and
\* calls connection.close(), which closes the transport
CloseClose ==
    /\ pc[Closer] = "close_close"
    /\ alive' = [alive EXCEPT ![bc[Closer].connection] = FALSE]
    /\ pc' = [pc EXCEPT ![Closer] = "close_send"]
    /\ last' = [op |-> "close_close", sid |-> bc[Closer].sid,
                chan |-> bc[Closer].connection]
    /\ UNCHANGED <<storeVars, regVars, sess, ws_client_id, bc, sent, inbound, budget,
                   cleaned, done, clientVars>>

\* the loop resumes after `await connection.close()` or after a failed send
CloseStep ==
    /\ pc[Closer] = "close_send"
    /\ CloseFrom(bc[Closer])
    /\ UNCHANGED <<storeVars, sess, ws_client_id, alive, inbound, budget, cleaned,
                   done, clientVars>>

NextRegistry ==
    \/ \E c \in EditChans, sid \in SessionIds : Connect(c, sid)
    \/ \E c \in EditChans : TransportClose(c)
    \/ \E c \in EditChans : RecvCodeUpdate(c, "X", "python")
    \/ \E c \in EditChans : RecvLeave(c)
    \/ \E c \in EditChans : RecvDisconnect(c)
    \/ \E c \in EditChans : BcastStep(c)
    \/ \E sid \in SessionIds : CloseStart(sid)
    \/ CloseClose
    \/ CloseStep

SpecRegistry == InitIso /\ [][NextRegistry]_vars

\* the channels bound to a session: those whose reverse-lookup entry names it
BoundTo(sid) == {c \in DOMAIN connection_info : connection_info[c][1] = sid}

\* C39: in every state reached by connect, disconnect, broadcasts (with
\* failing sends) and close_session_connections the two maps of the
\* registry agree: a channel is in the list of session s exactly when its
\* reverse-lookup entry names s, no channel is listed twice, no key maps to
\* an empty list, get_session_connections(s) is the number of channels
\* bound to s, and disconnect of a channel that is not bound returns
\* (None, None) and leaves both maps as they are.
C39_RegistryMapsAgree ==
    /\ \A sid \in DOMAIN connections :
           /\ connections[sid] # <<>>
           /\ Range(connections[sid]) = BoundTo(sid)
           /\ \A i, j \in 1..Len(connections[sid]) :
                  connections[sid][i] = connections[sid][j] => i = j
    /\ \A c \in DOMAIN connection_info : connection_info[c][1] \in DOMAIN connections
    /\ \A sid \in SessionIds :
           get_session_connections(connections, sid) = Cardinality(BoundTo(sid))
    /\ \A c \in Chans \ DOMAIN connection_info :
           LET d == disconnect(connections, connection_info, c)
           IN /\ d.sid = None
              /\ d.client_id = None
              /\ d.connections = connections
              /\ d.connection_info = connection_info

\* close_session_connections has returned for a session to which a channel
\* was bound, after a broadcast in which a send failed had pruned a channel
C39_Witness ==
    /\ last.op = "close_session_connections"
    /\ last.found
    /\ ~last.raised
    /\ \E c \in EditChans : cleaned[c].pruned > 0
    /\ \E c \in EditChans : sess[c] = last.sid /\ pc[c] # "closed"
    /\ BoundTo(last.sid) = {}

====
